---- MODULE Spec2Model ----
(***************************************************************************)
(* The RAG content pipeline of avatar-app: text normalisation and          *)
(* chunking (textProcessor.js), embedding (embeddingService.js), the       *)
(* vector repository (vectorRepository.js, supabaseClient.js), content     *)
(* ingestion (contentIngestion.js) and query processing                    *)
(* (queryProcessor.js, responseGenerator.js).                              *)
(*                                                                         *)
(* Strings are sequences of one-character strings; offsets are 0-based as  *)
(* in the JavaScript source, so character i of s is s[i + 1].              *)
(***************************************************************************)
EXTENDS Integers, Sequences, FiniteSets, TLC

(***************************************************************************)
(* Bounds of the model                                                     *)
(***************************************************************************)
\* longest text handed to chunkText by the stand-alone chunker specification
MaxTextLen == 5
\* largest chunkSize tried by the stand-alone chunker specification
MaxChunkSize == 4
\* largest overlap tried by the stand-alone chunker specification
MaxOverlap == 3
\* most rows the repository specification lets content_chunks hold
MaxRows == 2
\* largest matchCount the repository specification passes to findSimilarChunks
MaxMatchCount == 1
\* most rows the query specification lets content_chunks hold
MaxQueryRows == 1
\* most rows the query specification lets content_sources and chat_history hold
MaxSources == 1
MaxHistory == 1
\* the ingestion specification starts no ingestion once content_chunks holds
\* this many rows
MaxStored == 1
\* the longest text handed to cleanText on its own
MaxCleanLen == 4
\* the most components of a vector handed to cosineSimilarity on its own
MaxDim == 2

\* The recorded chunk list saturates here, so that a loop that never exits
\* is a finite cycle of states.  A run that leaves the loop visits every
\* window start at most once and the starts lie in -overlap .. len-1, so a
\* run of the stand-alone chunker that returns never reaches the cap; the
\* texts the ingestion specification chunks fit in one chunk, are cut in
\* two (overlap -1) or keep the loop running.
ChunkCap == MaxTextLen + MaxOverlap + 1

(***************************************************************************)
(* Program constants                                                       *)
(***************************************************************************)
\* textProcessor.chunkText: paragraph breaks are looked for in the last 200
\* characters of the window, sentence breaks in the last 100
ParaWindow == 200
SentenceWindow == 100

VARIABLES
  \* textProcessor.chunkText: its arguments, its locals and its position
  text, chunkSize, overlap, startChar, chunks, chunkPc,
  \* openaiClient.client and supabaseClient.client: "null" until initialized
  openaiClient, supabaseClient,
  \* the tables of the vector database
  content_chunks, content_sources, chat_history,
  \* the last direct call of a repository or provider operation and its outcome
  lastOp,
  \* the queryProcessor.processQuery call in progress
  query,
  \* the contentIngestion call in progress: of one video, post or text, and
  \* of a channel or account
  ingest, batch

chunkVars == <<text, chunkSize, overlap, startChar, chunks, chunkPc>>
clientVars == <<openaiClient, supabaseClient>>
dbVars == <<content_chunks, content_sources, chat_history>>
ingestVars == <<ingest, batch>>
vars == <<text, chunkSize, overlap, startChar, chunks, chunkPc,
          openaiClient, supabaseClient,
          content_chunks, content_sources, chat_history, lastOp, query,
          ingest, batch>>

(***************************************************************************)
(* JavaScript string primitives                                            *)
(***************************************************************************)
Min(a, b) == IF a < b THEN a ELSE b
Max(a, b) == IF a > b THEN a ELSE b

\* the characters String.prototype.trim and the regex class \s remove
WhiteSpace == {" ", "\n", "\t", "\r"}

\* F(v), with the argument v worked out once, before F is applied to it
With(v, F(_)) == CHOOSE r \in {F(x) : x \in {v}} : TRUE

\* s.substring(from, to): both ends clamped to 0 .. length, swapped if needed
Substring(s, from, to) ==
  LET f == Max(0, Min(from, Len(s)))
      t == Max(0, Min(to, Len(s)))
  IN  SubSeq(s, Min(f, t) + 1, Max(f, t))

\* the positions of s, in order
Positions(s) == [i \in 1..Len(s) |-> i]

\* s.trim()
Trim(s) ==
  With(s, LAMBDA t :
    With(SelectSeq(Positions(t), LAMBDA i : t[i] \notin WhiteSpace), LAMBDA keep :
      IF keep = <<>> THEN <<>> ELSE SubSeq(t, keep[1], keep[Len(keep)])))

\* s.lastIndexOf(pat, fromIndex): the greatest 0-based index <= fromIndex at
\* which pat occurs, or -1
LastIndexOf(s, pat, fromIndex) ==
  LET hi   == Min(Max(fromIndex, 0), Len(s) - Len(pat))
      hits == {i \in 0..hi : SubSeq(s, i + 1, i + Len(pat)) = pat}
  IN  IF hits = {} THEN -1 ELSE CHOOSE i \in hits : \A j \in hits : i >= j

\* s.replace(/[set]+/g, c): every maximal run of characters of set becomes
\* the character c
ReplaceRuns(s, set, c) ==
  With(s, LAMBDA t :
    With(SelectSeq(Positions(t),
                   LAMBDA i : t[i] \notin set \/ i = 1 \/ t[i - 1] \notin set),
         LAMBDA keep :
           SubSeq([j \in 1..Len(keep) |-> IF t[keep[j]] \in set THEN c ELSE t[keep[j]]],
                  1, Len(keep))))

\* s.replace(/c/g, '')
RemoveAll(s, c) == SelectSeq(s, LAMBDA x : x # c)

\* cleanText collapsing runs of blanks only, the other whitespace
\* characters being handled by the later replacements
CleanTextOfBlankRuns(s) ==
  IF s = <<>> THEN <<>>
  ELSE Trim(RemoveAll(ReplaceRuns(ReplaceRuns(ReplaceRuns(s, {" "}, " "),
                                              {"\n"}, "\n"),
                                  {"\t"}, " "),
                      "\r"))

\* textProcessor.cleanText
CleanText(s) ==
  IF s = <<>> THEN <<>>
  ELSE Trim(RemoveAll(ReplaceRuns(ReplaceRuns(ReplaceRuns(s, WhiteSpace, " "),
                                              {"\n"}, "\n"),
                                  {"\t"}, " "),
                      "\r"))

\* textProcessor.estimateTokenCount: Math.ceil(text.length / 4)
EstimateTokenCount(s) == IF s = <<>> THEN 0 ELSE (Len(s) + 3) \div 4

ParagraphBreak == <<"\n", "\n">>
SentenceBreak == <<".", " ">>

(***************************************************************************)
(* textProcessor.chunkText, one loop iteration per step                    *)
(***************************************************************************)
\* lines 65-85: the end of the window that starts at start
WindowEnd(s, start, size) ==
  LET endChar       == start + size
      paraBreak     == LastIndexOf(s, ParagraphBreak, endChar)
      sentenceBreak == LastIndexOf(s, SentenceBreak, endChar)
  IN  IF endChar < Len(s)
      THEN IF paraBreak > start /\ paraBreak > endChar - ParaWindow
           THEN paraBreak + 1
           ELSE IF sentenceBreak > start /\ sentenceBreak > endChar - SentenceWindow
                THEN sentenceBreak + 1
                ELSE endChar
      ELSE Len(s)

\* lines 99-100: the start of the next window
NextStart(endChar, ov) == endChar - ov

\* chunks.push, with the recorded list saturating at ChunkCap
Push(list, chunk) == IF Len(list) < ChunkCap THEN Append(list, chunk) ELSE list

\* lines 49-61: no chunk for an empty text, one chunk for a text that fits
ChunkEntry ==
  /\ chunkPc = "entry"
  /\ IF text = <<>>
     THEN chunks' = <<>> /\ chunkPc' = "done"
     ELSE IF Len(text) <= chunkSize
          THEN /\ chunks' = <<[text |-> text, startChar |-> 0, endChar |-> Len(text)]>>
               /\ chunkPc' = "done"
          ELSE chunks' = <<>> /\ chunkPc' = "test"
  /\ startChar' = 0
  /\ UNCHANGED <<text, chunkSize, overlap>>
  /\ UNCHANGED <<clientVars, dbVars, lastOp, query, ingestVars>>

\* line 63: the loop condition
ChunkTest ==
  /\ chunkPc = "test"
  /\ chunkPc' = IF startChar < Len(text) THEN "body" ELSE "done"
  /\ UNCHANGED <<text, chunkSize, overlap, startChar, chunks>>
  /\ UNCHANGED <<clientVars, dbVars, lastOp, query, ingestVars>>

\* lines 65-103: one iteration of the loop body
ChunkBody ==
  /\ chunkPc = "body"
  /\ LET endChar   == WindowEnd(text, startChar, chunkSize)
         chunkText == Trim(Substring(text, startChar, endChar))
         next      == NextStart(endChar, overlap)
     IN  /\ chunks' = IF chunkText # <<>>
                      THEN Push(chunks, [text |-> chunkText, startChar |-> startChar,
                                         endChar |-> endChar])
                      ELSE chunks
         /\ startChar' = next
         /\ chunkPc' = IF next >= Len(text) THEN "done" ELSE "test"
  /\ UNCHANGED <<text, chunkSize, overlap>>
  /\ UNCHANGED <<clientVars, dbVars, lastOp, query, ingestVars>>

ChunkStep == ChunkEntry \/ ChunkTest \/ ChunkBody

(***************************************************************************)
(* Values                                                                  *)
(***************************************************************************)
\* an optional value (a property that may be undefined): {} or {v}
None == {}
Some(v) == {v}
Get(m, default) == IF m = {} THEN default ELSE CHOOSE v \in m : TRUE

\* obj.name || default (for a property that is never falsy when present)
Prop(obj, name, default) == IF name \in DOMAIN obj THEN obj[name] ELSE default

\* the embedding of a record that has none
NoEmbedding == <<>>

Owners == {"A", "B"}

YOUTUBE_VIDEO == "youtube_video"
YOUTUBE_CHANNEL == "youtube_channel"
INSTAGRAM_POST == "instagram_post"
INSTAGRAM_ACCOUNT == "instagram_account"
CUSTOM_TEXT == "custom_text"

\* Embeddings.  The provider's vectors have 1536 dimensions; the model uses
\* two, with vectors of length 5, so that every cosine is a whole number of
\* hundredths: 100 or 80.
Vectors == {<<5, 0>>, <<4, 3>>}

Dot(a, b) == a[1] * b[1] + a[2] * b[2]
Sqrt(n) == CHOOSE r \in 0..n : r * r <= n /\ n < (r + 1) * (r + 1)

\* 1 - (embedding <=> query_embedding), in hundredths
Similarity(a, b) == (100 * Dot(a, b)) \div (Sqrt(Dot(a, a)) * Sqrt(Dot(b, b)))

(***************************************************************************)
(* supabaseClient and openaiClient                                         *)
(***************************************************************************)
IdleClients == openaiClient = "null" /\ supabaseClient = "null"

EmptyDb == content_chunks = <<>> /\ content_sources = <<>> /\ chat_history = <<>>

\* isConfigured answering true whether or not the client was created
SupabaseIsConfiguredAlways == TRUE

\* supabaseClient.isConfigured and openaiClient.isConfigured
SupabaseIsConfigured == supabaseClient # "null"
OpenaiIsConfigured == openaiClient # "null"

NotInitializedSupabase == "Supabase client not initialized"
NotInitializedOpenai == "OpenAI client not initialized"
DatabaseError == "database error"

\* no operation has been called yet
NoOp == [name |-> "none", client |-> "null", args |-> <<>>, outcome |-> "none",
         error |-> "", accessed |-> FALSE, data |-> <<>>]

\* an operation that threw before reaching its client
Threw(name, client, args, error) ==
  [name |-> name, client |-> client, args |-> args, outcome |-> "threw",
   error |-> error, accessed |-> FALSE, data |-> <<>>]

\* an operation whose request to the external service failed
Failed(name, client, args, error) ==
  [name |-> name, client |-> client, args |-> args, outcome |-> "threw",
   error |-> error, accessed |-> TRUE, data |-> <<>>]

\* an operation that returned data
Returned(name, client, args, accessed, data) ==
  [name |-> name, client |-> client, args |-> args, outcome |-> "returned",
   error |-> "", accessed |-> accessed, data |-> data]

\* supabaseClient.initialize(url, key)
InitializeSupabase(url, key) ==
  /\ supabaseClient' = IF url = "" \/ key = "" THEN supabaseClient ELSE "client"
  /\ UNCHANGED <<ingestVars, chunkVars, openaiClient, dbVars, lastOp, query>>

\* openaiClient.initialize(apiKey)
InitializeOpenai(apiKey) ==
  /\ openaiClient' = IF apiKey = "" THEN openaiClient ELSE "client"
  /\ UNCHANGED <<ingestVars, chunkVars, supabaseClient, dbVars, lastOp, query>>

(***************************************************************************)
(* vectorRepository                                                        *)
(***************************************************************************)
defaultSimilarityThreshold == 75
defaultMatchCount == 5

\* storeContentChunks numbering the records from the last chunk to the first
ChunkRecordsNumberedBackwards(chunkList, userId, contentType, contentId, contentSource, metadata) ==
  [index \in 1..Len(chunkList) |->
     [user_id        |-> userId,
      content_type   |-> contentType,
      content_id     |-> contentId,
      content_source |-> contentSource,
      chunk_index    |-> Len(chunkList) - index,
      chunk_text     |-> chunkList[index].text,
      metadata       |-> [source        |-> metadata,
                          created_at    |-> None,
                          startChar     |-> chunkList[index].startChar,
                          endChar       |-> chunkList[index].endChar,
                          tokenEstimate |-> Prop(chunkList[index], "tokenEstimate", 0)],
      embedding      |-> Prop(chunkList[index], "embedding", NoEmbedding)]]

\* storeContentChunks, lines 41-55: the records to insert
ChunkRecords(chunkList, userId, contentType, contentId, contentSource, metadata) ==
  [index \in 1..Len(chunkList) |->
     [user_id        |-> userId,
      content_type   |-> contentType,
      content_id     |-> contentId,
      content_source |-> contentSource,
      chunk_index    |-> index - 1,
      chunk_text     |-> chunkList[index].text,
      metadata       |-> [source        |-> metadata,
                          created_at    |-> None,
                          startChar     |-> chunkList[index].startChar,
                          endChar       |-> chunkList[index].endChar,
                          tokenEstimate |-> Prop(chunkList[index], "tokenEstimate", 0)],
      embedding      |-> Prop(chunkList[index], "embedding", NoEmbedding)]]

\* the insert of one statement: every record gets the next id, or none is kept
InsertRows(table, records) ==
  table \o [i \in 1..Len(records) |-> [id |-> Len(table) + i] @@ records[i]]

\* match_content_chunks without `user_id = user_id_input`
MatchCandidatesOfAnyOwner(query_embedding, match_threshold, user_id_input) ==
  {i \in 1..Len(content_chunks) :
     Similarity(content_chunks[i].embedding, query_embedding) > match_threshold}

\* match_content_chunks: the rows of one owner above the threshold ...
MatchCandidates(query_embedding, match_threshold, user_id_input) ==
  {i \in 1..Len(content_chunks) :
     /\ content_chunks[i].user_id = user_id_input
     /\ Similarity(content_chunks[i].embedding, query_embedding) > match_threshold}

\* ... as the rows the function returns
MatchRow(i, query_embedding) ==
  [id           |-> content_chunks[i].id,
   content_id   |-> content_chunks[i].content_id,
   content_type |-> content_chunks[i].content_type,
   content_text |-> content_chunks[i].chunk_text,
   metadata     |-> content_chunks[i].metadata,
   similarity   |-> Similarity(content_chunks[i].embedding, query_embedding)]

\* ... ORDER BY similarity DESC LIMIT match_count: every list the database may
\* answer with (rows of equal similarity come in any order)
MatchContentChunks(query_embedding, match_threshold, match_count, user_id_input) ==
  LET cand == MatchCandidates(query_embedding, match_threshold, user_id_input)
      n    == Min(match_count, Cardinality(cand))
      sim(i) == Similarity(content_chunks[i].embedding, query_embedding)
      picks == {p \in [1..n -> cand] :
                  /\ \A i, j \in 1..n : i < j => p[i] # p[j] /\ sim(p[i]) >= sim(p[j])
                  /\ \A c \in cand : (\A i \in 1..n : p[i] # c)
                                       => \A i \in 1..n : sim(c) <= sim(p[i])}
  IN  {[i \in 1..n |-> MatchRow(p[i], query_embedding)] : p \in picks}

Filter(seq, Keep(_)) == SelectSeq(seq, Keep)

\* new Date(item.metadata?.created_at || item.created_at) >= new Date(startDate):
\* a row without a date gives an Invalid Date, and every comparison is false
OnOrAfter(item, date) ==
  item.metadata.created_at # None /\ Get(item.metadata.created_at, 0) >= date
OnOrBefore(item, date) ==
  item.metadata.created_at # None /\ Get(item.metadata.created_at, 0) <= date

\* findSimilarChunks, lines 146-172: the client-side filters
ClientSideFilter(data, options) ==
  LET byType == IF options.contentTypes # {}
                THEN Filter(data, LAMBDA item : item.content_type \in options.contentTypes)
                ELSE data
      byId   == IF options.contentIds # {}
                THEN Filter(byType, LAMBDA item : item.content_id \in options.contentIds)
                ELSE byType
      byStart == IF options.startDate # None
                 THEN Filter(byId, LAMBDA item : OnOrAfter(item, Get(options.startDate, 0)))
                 ELSE byId
  IN  IF options.endDate # None
      THEN Filter(byStart, LAMBDA item : OnOrBefore(item, Get(options.endDate, 0)))
      ELSE byStart

\* findSimilarChunks passing its default threshold whatever the options say
ThresholdIgnored(options) == defaultSimilarityThreshold

\* findSimilarChunks, lines 120-127: the options with their defaults
Threshold(options) == Get(options.threshold, defaultSimilarityThreshold)
MatchCount(options) == Get(options.matchCount, defaultMatchCount)

\* findSimilarChunks, lines 131-172, on a configured client: every list it may
\* return when the database answers
SimilarChunks(queryEmbedding, userId, options) ==
  {ClientSideFilter(data, options) :
     data \in MatchContentChunks(queryEmbedding, Threshold(options),
                                 MatchCount(options), userId)}

\* vectorRepository.storeContentChunks called directly
StoreContentChunks(chunkList, userId, contentType, contentId, contentSource, metadata) ==
  LET args == <<chunkList, userId, contentType, contentId>>
      name == "storeContentChunks"
  IN
  /\ IF ~SupabaseIsConfigured
     THEN /\ lastOp' = Threw(name, supabaseClient, args, NotInitializedSupabase)
          /\ UNCHANGED content_chunks
     ELSE IF chunkList = <<>>
     THEN /\ lastOp' = Returned(name, supabaseClient, args, FALSE, <<>>)
          /\ UNCHANGED content_chunks
     ELSE \/ /\ content_chunks' =
                  InsertRows(content_chunks,
                             ChunkRecords(chunkList, userId, contentType, contentId,
                                          contentSource, metadata))
             /\ lastOp' = Returned(name, supabaseClient, args, TRUE,
                                   [i \in 1..Len(chunkList) |->
                                      [id |-> Len(content_chunks) + i,
                                       content_id |-> contentId,
                                       chunk_index |-> i - 1]])
          \/ /\ lastOp' = Failed(name, supabaseClient, args, DatabaseError)
             /\ UNCHANGED content_chunks
  /\ UNCHANGED <<ingestVars, chunkVars, clientVars, content_sources, chat_history, query>>

\* vectorRepository.findSimilarChunks called directly
FindSimilarChunks(queryEmbedding, userId, options) ==
  LET args == <<queryEmbedding, userId, options>>
      name == "findSimilarChunks"
  IN
  /\ IF ~SupabaseIsConfigured
     THEN lastOp' = Threw(name, supabaseClient, args, NotInitializedSupabase)
     ELSE \/ \E filtered \in SimilarChunks(queryEmbedding, userId, options) :
               lastOp' = Returned(name, supabaseClient, args, TRUE, filtered)
          \/ lastOp' = Failed(name, supabaseClient, args, DatabaseError)
  /\ UNCHANGED <<ingestVars, chunkVars, clientVars, dbVars, query>>

Reverse(seq) == [i \in 1..Len(seq) |-> seq[Len(seq) + 1 - i]]

\* vectorRepository.storeContentSource called directly
StoreContentSource(userId, sourceType, sourceName, sourceUrl, metadata) ==
  LET args == <<userId, sourceType, sourceName>>
      name == "storeContentSource"
      record == [user_id |-> userId, source_type |-> sourceType,
                 source_name |-> sourceName, source_url |-> sourceUrl,
                 metadata |-> metadata]
  IN
  /\ IF ~SupabaseIsConfigured
     THEN /\ lastOp' = Threw(name, supabaseClient, args, NotInitializedSupabase)
          /\ UNCHANGED content_sources
     ELSE \/ /\ content_sources' = InsertRows(content_sources, <<record>>)
             /\ lastOp' = Returned(name, supabaseClient, args, TRUE,
                                   <<[id |-> Len(content_sources) + 1] @@ record>>)
          \/ /\ lastOp' = Failed(name, supabaseClient, args, DatabaseError)
             /\ UNCHANGED content_sources
  /\ UNCHANGED <<ingestVars, chunkVars, clientVars, content_chunks, chat_history, query>>

\* storeChatHistory, lines 194-201: the record to insert
HistoryRecord(userId, userQuery, queryEmbedding, response, retrievedChunkIds) ==
  [user_id             |-> userId,
   user_query          |-> userQuery,
   query_embedding     |-> queryEmbedding,
   system_response     |-> response,
   retrieved_chunk_ids |-> retrievedChunkIds]

\* vectorRepository.storeChatHistory called directly
StoreChatHistory(userId, userQuery, queryEmbedding, response, retrievedChunkIds) ==
  LET args == <<userId, userQuery>>
      name == "storeChatHistory"
      record == HistoryRecord(userId, userQuery, queryEmbedding, response,
                              retrievedChunkIds)
  IN
  /\ IF ~SupabaseIsConfigured
     THEN /\ lastOp' = Threw(name, supabaseClient, args, NotInitializedSupabase)
          /\ UNCHANGED chat_history
     ELSE \/ /\ chat_history' = InsertRows(chat_history, <<record>>)
             /\ lastOp' = Returned(name, supabaseClient, args, TRUE,
                                   <<[id |-> Len(chat_history) + 1] @@ record>>)
          \/ /\ lastOp' = Failed(name, supabaseClient, args, DatabaseError)
             /\ UNCHANGED chat_history
  /\ UNCHANGED <<ingestVars, chunkVars, clientVars, content_chunks, content_sources, query>>

\* a read of one table: the guard, then the rows or the database's error
ReadCall(name, args, rows) ==
  /\ IF ~SupabaseIsConfigured
     THEN lastOp' = Threw(name, supabaseClient, args, NotInitializedSupabase)
     ELSE \/ lastOp' = Returned(name, supabaseClient, args, TRUE, rows)
          \/ lastOp' = Failed(name, supabaseClient, args, DatabaseError)
  /\ UNCHANGED <<ingestVars, chunkVars, clientVars, dbVars, query>>

\* .range(from, to): the rows at the 0-based positions from..to that exist
Range(rows, from, to) ==
  IF from >= Len(rows) THEN <<>> ELSE SubSeq(rows, from + 1, Min(to + 1, Len(rows)))

\* vectorRepository.getChatHistory: the user's records, newest first,
\* .range(offset, offset + limit - 1)
GetChatHistory(userId, limit, offset) ==
  ReadCall("getChatHistory", <<userId, limit, offset>>,
           Range(Reverse(SelectSeq(chat_history, LAMBDA r : r.user_id = userId)),
                 offset, offset + limit - 1))

\* vectorRepository.getUserContentSources: the user's sources, newest first
GetUserContentSources(userId) ==
  ReadCall("getUserContentSources", <<userId>>,
           Reverse(SelectSeq(content_sources, LAMBDA r : r.user_id = userId)))

\* the ways to list the rows of a set in ascending chunk_index
ByChunkIndex(rows) ==
  LET n == Cardinality(rows)
  IN  {[i \in 1..n |-> content_chunks[p[i]]] :
         p \in {f \in [1..n -> rows] :
                  \A i, j \in 1..n :
                    i < j => /\ f[i] # f[j]
                             /\ content_chunks[f[i]].chunk_index
                                  <= content_chunks[f[j]].chunk_index}}

\* vectorRepository.getContentChunks: the chunks of one content ID of the user
GetContentChunks(userId, contentId) ==
  \E rows \in ByChunkIndex({i \in 1..Len(content_chunks) :
                              /\ content_chunks[i].user_id = userId
                              /\ content_chunks[i].content_id = contentId}) :
    ReadCall("getContentChunks", <<userId, contentId>>, rows)

(***************************************************************************)
(* embeddingService                                                        *)
(***************************************************************************)
maxContentLength == 8000

ContentTooLarge == "Content too large for embedding"
EmbeddingProviderError == "embedding provider error"
LLMProviderError == "completion provider error"

\* generateEmbeddings, lines 35-49: the texts as sent to the provider
ProcessedItems(textArray) ==
  SubSeq([i \in 1..Len(textArray) |->
            With(CleanText(textArray[i]), LAMBDA cleanedText :
              [originalText   |-> textArray[i],
               processedText  |-> cleanedText,
               tokenEstimate  |-> EstimateTokenCount(cleanedText)])],
         1, Len(textArray))

\* the guard rejecting a text estimated at the limit itself
TooLargeAtTheLimit(textArray) ==
  With(ProcessedItems(textArray), LAMBDA items :
    \E i \in 1..Len(items) : items[i].tokenEstimate >= maxContentLength)

\* generateEmbeddings, line 40: some text is over the limit
TooLarge(textArray) ==
  With(ProcessedItems(textArray), LAMBDA items :
    \E i \in 1..Len(items) : items[i].tokenEstimate > maxContentLength)

\* generateEmbeddings(textArray): every way the call can end.  calls counts
\* the requests made to the provider; the request that fails is the last.
GenerateEmbeddings(textArray) ==
  LET n     == Len(textArray)
      items == ProcessedItems(textArray)
  IN  IF ~OpenaiIsConfigured
      THEN {[ok |-> FALSE, error |-> NotInitializedOpenai, calls |-> 0, results |-> <<>>]}
      ELSE IF TooLarge(textArray)
      THEN {[ok |-> FALSE, error |-> ContentTooLarge, calls |-> 0, results |-> <<>>]}
      ELSE {[ok |-> TRUE, error |-> "", calls |-> n,
             results |-> [i \in 1..n |->
                            [text          |-> items[i].originalText,
                             processedText |-> items[i].processedText,
                             embedding     |-> e[i],
                             tokenEstimate |-> items[i].tokenEstimate]]] :
               e \in [1..n -> Vectors]}
           \cup {[ok |-> FALSE, error |-> EmbeddingProviderError, calls |-> k,
                  results |-> <<>>] : k \in 1..n}

\* embedChunks answering with the chunks as it got them
EmbedChunksWithoutEmbeddings(chunkList) ==
  {[ok |-> TRUE, error |-> "", calls |-> 0, results |-> chunkList]}

\* embedChunks(chunks): every way the call can end
EmbedChunks(chunkList) ==
  IF chunkList = <<>>
  THEN {[ok |-> TRUE, error |-> "", calls |-> 0, results |-> <<>>]}
  ELSE {[ok |-> out.ok, error |-> out.error, calls |-> out.calls,
         results |-> IF out.ok
                     THEN [i \in 1..Len(chunkList) |->
                             [text          |-> chunkList[i].text,
                              startChar     |-> chunkList[i].startChar,
                              endChar       |-> chunkList[i].endChar,
                              embedding     |-> out.results[i].embedding,
                              tokenEstimate |-> out.results[i].tokenEstimate]]
                     ELSE <<>>] :
          out \in GenerateEmbeddings([i \in 1..Len(chunkList) |-> chunkList[i].text])}

(***************************************************************************)
(* responseGenerator                                                       *)
(***************************************************************************)
\* buildSystemPrompt: the default prompt for an empty configuration, else a
\* prompt made from the configuration
BuildSystemPrompt(avatarConfig) ==
  IF avatarConfig = "{}" THEN "defaultSystemPrompt" ELSE avatarConfig

\* generateResponse, lines 41-60: the messages sent to the completion model;
\* the context section holds the joined context texts, if there are any
Messages(userQuery, contextTexts, avatarConfig) ==
  [system  |-> BuildSystemPrompt(avatarConfig),
   context |-> IF contextTexts # <<>> THEN Some(contextTexts) ELSE None,
   user    |-> userQuery]

\* what generateResponse returns: the completion made for the messages, or
\* the fixed apology of its catch block
Completion(messages) == [kind |-> "completion", to |-> Some(messages)]
Apology == [kind |-> "apology", to |-> None]
NoResponse == [kind |-> "none", to |-> None]

\* openaiClient.createEmbedding called directly
CreateEmbedding(content) ==
  /\ lastOp' \in
       IF openaiClient = "null"
       THEN {Threw("createEmbedding", openaiClient, <<content>>, NotInitializedOpenai)}
       ELSE {Returned("createEmbedding", openaiClient, <<content>>, TRUE, <<e>>) :
               e \in Vectors}
            \cup {Failed("createEmbedding", openaiClient, <<content>>,
                         EmbeddingProviderError)}
  /\ UNCHANGED <<ingestVars, chunkVars, clientVars, dbVars, query>>

\* openaiClient.createChatCompletion called directly
CreateChatCompletion(messages) ==
  /\ lastOp' \in
       IF openaiClient = "null"
       THEN {Threw("createChatCompletion", openaiClient, <<messages>>,
                   NotInitializedOpenai)}
       ELSE {Returned("createChatCompletion", openaiClient, <<messages>>, TRUE,
                      <<Completion(messages)>>),
             Failed("createChatCompletion", openaiClient, <<messages>>, LLMProviderError)}
  /\ UNCHANGED <<ingestVars, chunkVars, clientVars, dbVars, query>>

\* embeddingService.generateEmbeddings called directly
CallGenerateEmbeddings(textArray) ==
  /\ \E out \in GenerateEmbeddings(textArray) :
       lastOp' = [name |-> "generateEmbeddings", client |-> openaiClient,
                  args |-> <<textArray>>,
                  outcome |-> IF out.ok THEN "returned" ELSE "threw",
                  error |-> out.error, accessed |-> out.calls > 0,
                  data |-> out.results]
  /\ UNCHANGED <<ingestVars, chunkVars, clientVars, dbVars, query>>

\* embeddingService.embedChunks called directly
CallEmbedChunks(chunkList) ==
  /\ \E out \in EmbedChunks(chunkList) :
       lastOp' = [name |-> "embedChunks", client |-> openaiClient,
                  args |-> <<chunkList>>,
                  outcome |-> IF out.ok THEN "returned" ELSE "threw",
                  error |-> out.error, accessed |-> out.calls > 0,
                  data |-> out.results]
  /\ UNCHANGED <<ingestVars, chunkVars, clientVars, dbVars, query>>

\* responseGenerator.generateResponse called directly
GenerateResponse(userQuery, contextTexts, avatarConfig) ==
  LET args == <<userQuery, contextTexts, avatarConfig>>
      name == "generateResponse"
      messages == Messages(userQuery, contextTexts, avatarConfig)
  IN
  /\ lastOp' \in
       IF ~OpenaiIsConfigured
       THEN {Threw(name, openaiClient, args, NotInitializedOpenai)}
       ELSE {Returned(name, openaiClient, args, TRUE, <<Completion(messages)>>),
             Returned(name, openaiClient, args, TRUE, <<Apology>>)}
  /\ UNCHANGED <<ingestVars, chunkVars, clientVars, dbVars, query>>

\* responseGenerator.generateSummary called directly: the summary, or on a
\* failure the first maxLength characters of the content and '...'
GenerateSummary(content, maxLength) ==
  LET args == <<content, maxLength>>
      name == "generateSummary"
  IN
  /\ lastOp' \in
       IF ~OpenaiIsConfigured
       THEN {Threw(name, openaiClient, args, NotInitializedOpenai)}
       ELSE {Returned(name, openaiClient, args, TRUE, <<"summary">>),
             Returned(name, openaiClient, args, TRUE,
                      Substring(content, 0, maxLength) \o <<".", ".", ".">>)}
  /\ UNCHANGED <<ingestVars, chunkVars, clientVars, dbVars, query>>

(***************************************************************************)
(* queryProcessor.processQuery, one step per awaited call                  *)
(***************************************************************************)
defaultMaxChunks == 5

\* x || y for a number that may be undefined
OrDefault(m, default) == IF m = None \/ m = Some(0) THEN default ELSE Get(m, default)

NoQueryOptions == [threshold |-> None, maxChunks |-> None, contentTypes |-> {},
                   contentIds |-> {}]

NoQuery ==
  [pc |-> "idle", userId |-> "", query |-> <<>>, avatarConfig |-> "{}",
   options |-> NoQueryOptions, queryEmbedding |-> <<>>, similarChunks |-> <<>>,
   messages |-> None, accessed |-> {}, failed |-> {}, unconfigured |-> {},
   response |-> NoResponse, hasResults |-> FALSE, error |-> ""]

\* lines 710-721: the options handed to findSimilarChunks
SearchOptions(options) ==
  [threshold    |-> Some(OrDefault(options.threshold, defaultSimilarityThreshold)),
   matchCount   |-> Some(OrDefault(options.maxChunks, defaultMaxChunks)),
   contentTypes |-> options.contentTypes,
   contentIds   |-> options.contentIds,
   startDate    |-> None,
   endDate      |-> None]

\* hasResults set without looking at the retrieved chunks
HasResultsAlways(similarChunks) == TRUE

\* lines 725, 748 and 774
HasResults(similarChunks) == similarChunks # <<>>

Reject(q, error) == [q EXCEPT !.pc = "rejected", !.error = error]

\* a guard of the form `if (!client.isConfigured()) throw`: the call is
\* rejected, and which client was missing is remembered
GuardOrElse(q, configured, client, error, next) ==
  IF ~configured
  THEN [Reject(q, error) EXCEPT !.unconfigured = @ \cup {client}]
  ELSE next

\* lines 698-706: clean the query and ask for its embedding
ProcessQuery(userQuery, userId, avatarConfig, options) ==
  /\ query.pc = "idle"
  /\ LET cleanedQuery == CleanText(userQuery)
         q == [NoQuery EXCEPT !.userId = userId, !.query = cleanedQuery,
                              !.avatarConfig = avatarConfig, !.options = options]
     IN  query' =
           GuardOrElse(q, OpenaiIsConfigured, "openai", NotInitializedOpenai,
             IF TooLarge(<<cleanedQuery>>)
             THEN Reject(q, ContentTooLarge)
             ELSE [q EXCEPT !.pc = "embedding", !.accessed = {"embedding"}])
  /\ UNCHANGED <<ingestVars, chunkVars, clientVars, dbVars, lastOp>>

\* lines 706-722: the embedding arrives (or the provider fails), and the
\* similarity search is requested
QueryEmbedded ==
  /\ query.pc = "embedding"
  /\ \/ \E e \in Vectors :
          LET q == [query EXCEPT !.queryEmbedding = e]
          IN  query' =
                GuardOrElse(q, SupabaseIsConfigured, "supabase", NotInitializedSupabase,
                  [q EXCEPT !.pc = "searching", !.accessed = @ \cup {"search"}])
     \/ query' = [Reject(query, EmbeddingProviderError) EXCEPT !.failed = @ \cup {"embedding"}]
  /\ UNCHANGED <<ingestVars, chunkVars, clientVars, dbVars, lastOp>>

\* lines 722-758: the search result arrives (or the database fails), and
\* the completion is requested with the texts of the chunks found
QuerySearched ==
  /\ query.pc = "searching"
  /\ \/ \E found \in SimilarChunks(query.queryEmbedding, query.userId,
                                  SearchOptions(query.options)) :
          LET texts == [i \in 1..Len(found) |-> found[i].content_text]
              q == [query EXCEPT !.similarChunks = found]
          IN  query' =
                GuardOrElse(q, OpenaiIsConfigured, "openai", NotInitializedOpenai,
                  [q EXCEPT !.pc = "completing", !.accessed = @ \cup {"completion"},
                            !.messages = Some(Messages(q.query,
                                                       IF HasResults(found) THEN texts
                                                       ELSE <<>>,
                                                       q.avatarConfig))])
     \/ query' = [Reject(query, DatabaseError) EXCEPT !.failed = @ \cup {"search"}]
  /\ UNCHANGED <<ingestVars, chunkVars, clientVars, dbVars, lastOp>>

\* responseGenerator.generateResponse lines 63-76 and processQuery lines
\* 735-742, 761-768: the completion arrives, or the provider fails and the
\* catch block answers with the apology; the history record is sent
QueryCompleted ==
  /\ query.pc = "completing"
  /\ \E answered \in BOOLEAN :
       LET q == IF answered
                THEN [query EXCEPT !.response = Completion(Get(query.messages, <<>>))]
                ELSE [query EXCEPT !.response = Apology, !.failed = @ \cup {"completion"}]
       IN  query' =
             GuardOrElse(q, SupabaseIsConfigured, "supabase", NotInitializedSupabase,
               [q EXCEPT !.pc = "storing", !.accessed = @ \cup {"history"}])
  /\ UNCHANGED <<ingestVars, chunkVars, clientVars, dbVars, lastOp>>

\* lines 736-749, 762-775: the history record is stored and the result is
\* returned, or the insert fails
QueryStored ==
  /\ query.pc = "storing"
  /\ \/ /\ chat_history' =
             InsertRows(chat_history,
                        <<HistoryRecord(query.userId, query.query, query.queryEmbedding,
                                        query.response,
                                        [i \in 1..Len(query.similarChunks) |->
                                           query.similarChunks[i].id])>>)
        /\ query' = [query EXCEPT !.pc = "returned",
                                  !.hasResults = HasResults(query.similarChunks)]
     \/ /\ query' = [Reject(query, DatabaseError) EXCEPT !.failed = @ \cup {"history"}]
        /\ UNCHANGED chat_history
  /\ UNCHANGED <<ingestVars, chunkVars, clientVars, content_chunks, content_sources, lastOp>>

\* the caller has the result or the rejection
QueryDone ==
  /\ query.pc \in {"returned", "rejected"}
  /\ query' = NoQuery
  /\ UNCHANGED <<ingestVars, chunkVars, clientVars, dbVars, lastOp>>

(***************************************************************************)
(* Character classes and regular-expression matching                       *)
(***************************************************************************)
Digit == {"0", "1", "2", "3", "4", "5", "6", "7", "8", "9"}
Lower == {"a", "b", "c", "d", "e", "f", "g", "h", "i", "j", "k", "l", "m",
          "n", "o", "p", "q", "r", "s", "t", "u", "v", "w", "x", "y", "z"}
Upper == {"A", "B", "C", "D", "E", "F", "G", "H", "I", "J", "K", "L", "M",
          "N", "O", "P", "Q", "R", "S", "T", "U", "V", "W", "X", "Y", "Z"}
\* [a-zA-Z0-9_-] and [a-zA-Z0-9._]
IdChar == Lower \cup Upper \cup Digit \cup {"_", "-"}
NameChar == Lower \cup Upper \cup Digit \cup {".", "_"}

\* `${n}`: n as a decimal numeral
DigitOf(d) == <<"0", "1", "2", "3", "4", "5", "6", "7", "8", "9">>[d + 1]
RECURSIVE Decimal(_)
Decimal(n) == IF n < 10 THEN <<DigitOf(n)>> ELSE Decimal(n \div 10) \o <<DigitOf(n % 10)>>

\* the string of n characters c
Rep(c, n) == [i \in 1..n |-> c]

\* pat occurs in s at the 1-based position i
OccursAt(s, i, pat) == i >= 1 /\ i + Len(pat) - 1 <= Len(s) /\ SubSeq(s, i, i + Len(pat) - 1) = pat

\* the length of the longest run of characters of set that starts at position i
Run(s, i, set) ==
  CHOOSE n \in 0..Max(0, Len(s) - i + 1) :
    /\ \A k \in 0..(n - 1) : s[i + k] \in set
    /\ i + n > Len(s) \/ s[i + n] \notin set

\* ^ under the m flag: the start of the string or of a line
LineStart(s, i) == i = 1 \/ s[i - 1] \in {"\n", "\r"}

\* s.replace(regex, '') under the g flag: MatchLen(s, i) is the length of the
\* match that starts at position i, 0 if there is none.  No match of the
\* expressions below can start inside another one (each starts with a
\* character that cannot occur further on in a match), so the matches found
\* from left to right are all of them.
RemoveMatches(s, MatchLen(_, _)) ==
  With(s, LAMBDA t :
    With(UNION {i..(i + MatchLen(t, i) - 1) : i \in 1..Len(t)}, LAMBDA matched :
      With(SelectSeq(Positions(t), LAMBDA j : j \notin matched), LAMBDA keep :
        SubSeq([j \in 1..Len(keep) |-> t[keep[j]]], 1, Len(keep)))))

\* the match of open \d+ (: \d+){colons} close at position i
TimestampLen(s, i, open, close, colons) ==
  LET Fields[k \in 0..colons] ==
        \* the position behind the k-th colon-separated field, 0 if no match
        LET from == IF k = 0 THEN i + 1
                    ELSE IF Fields[k - 1] = 0 \/ ~OccursAt(s, Fields[k - 1], <<":">>) THEN 0
                    ELSE Fields[k - 1] + 1
        IN  IF from = 0 \/ Run(s, from, Digit) = 0 THEN 0 ELSE from + Run(s, from, Digit)
  IN  IF OccursAt(s, i, <<open>>) /\ Fields[colons] # 0
         /\ OccursAt(s, Fields[colons], <<close>>)
      THEN Fields[colons] + 1 - i
      ELSE 0

\* /\[\d+:\d+:\d+\]/ and /\(\d+:\d+\)/
BracketTimestamp(s, i) == TimestampLen(s, i, "[", "]", 2)
ParenTimestamp(s, i) == TimestampLen(s, i, "(", ")", 1)

\* the match of :?\s* at position i
ColonAndSpace(s, i) ==
  LET colon == IF OccursAt(s, i, <<":">>) THEN 1 ELSE 0
  IN  colon + Run(s, i + colon, WhiteSpace)

\* /^Speaker \d+:?\s*/m
SpeakerLabel(s, i) ==
  LET label  == <<"S", "p", "e", "a", "k", "e", "r", " ">>
      digits == Run(s, i + Len(label), Digit)
  IN  IF LineStart(s, i) /\ OccursAt(s, i, label) /\ digits > 0
      THEN Len(label) + digits + ColonAndSpace(s, i + Len(label) + digits)
      ELSE 0

\* /^[A-Z][a-z]+:?\s*/m
SpeakerName(s, i) ==
  LET letters == Run(s, i + 1, Lower)
  IN  IF LineStart(s, i) /\ s[i] \in Upper /\ letters > 0
      THEN 1 + letters + ColonAndSpace(s, i + 1 + letters)
      ELSE 0

\* textProcessor.cleanTranscript
CleanTranscript(transcript) ==
  IF transcript = <<>> THEN <<>>
  ELSE Trim(ReplaceRuns(ReplaceRuns(
         RemoveMatches(RemoveMatches(RemoveMatches(RemoveMatches(
           transcript, BracketTimestamp), ParenTimestamp), SpeakerLabel), SpeakerName),
         WhiteSpace, " "), {"\n"}, "\n"))

\* the first match of prefix followed by n characters of IdChar: the n
\* characters, if there is a match
CaptureFixed(s, prefix, n) ==
  LET hits == {i \in 1..Len(s) :
                 /\ OccursAt(s, i, prefix)
                 /\ Run(s, i + Len(prefix), IdChar) >= n}
      first == CHOOSE i \in hits : \A j \in hits : i <= j
  IN  IF hits = {} THEN None
      ELSE Some(SubSeq(s, first + Len(prefix), first + Len(prefix) + n - 1))

\* the first match of prefix followed by one or more characters of set: the
\* characters, if there is a match
CaptureRun(s, prefix, set) ==
  LET hits == {i \in 1..Len(s) :
                 /\ OccursAt(s, i, prefix)
                 /\ Run(s, i + Len(prefix), set) >= 1}
      first == CHOOSE i \in hits : \A j \in hits : i <= j
  IN  IF hits = {} THEN None
      ELSE Some(SubSeq(s, first + Len(prefix),
                       first + Len(prefix) + Run(s, first + Len(prefix), set) - 1))

\* the first of the captures that matched
FirstOf(captures) ==
  LET hits == {i \in 1..Len(captures) : captures[i] # None}
  IN  IF hits = {} THEN None ELSE captures[CHOOSE i \in hits : \A j \in hits : i <= j]

(***************************************************************************)
(* youtubeService and instagramContentService                              *)
(***************************************************************************)
\* youtubeService.extractVideoId
ExtractVideoId(urlOrId) ==
  IF urlOrId = <<>> THEN None
  ELSE IF Len(urlOrId) = 11 /\ Run(urlOrId, 1, IdChar) = 11 THEN Some(urlOrId)
  ELSE FirstOf(<<
    CaptureFixed(urlOrId, <<"y", "o", "u", "t", "u", ".", "b", "e", "/">>, 11),
    CaptureFixed(urlOrId, <<"y", "o", "u", "t", "u", "b", "e", ".", "c", "o", "m", "/", "w", "a",
      "t", "c", "h", "?", "v", "=">>, 11),
    CaptureFixed(urlOrId, <<"y", "o", "u", "t", "u", "b", "e", ".", "c", "o", "m", "/", "v", "/">>, 11),
    CaptureFixed(urlOrId, <<"y", "o", "u", "t", "u", "b", "e", ".", "c", "o", "m", "/", "e", "m",
      "b", "e", "d", "/">>, 11)>>)

\* youtubeService.extractChannelId
ExtractChannelId(urlOrUsername) ==
  LET found == FirstOf(<<
    CaptureFixed(urlOrUsername, <<"y", "o", "u", "t", "u", "b", "e", ".", "c", "o", "m", "/", "c", "h",
      "a", "n", "n", "e", "l", "/">>, 24),
    CaptureRun(urlOrUsername, <<"y", "o", "u", "t", "u", "b", "e", ".", "c", "o", "m", "/", "c", "/">>, IdChar),
    CaptureRun(urlOrUsername, <<"y", "o", "u", "t", "u", "b", "e", ".", "c", "o", "m", "/", "u", "s",
      "e", "r", "/">>, IdChar),
    CaptureRun(urlOrUsername, <<"y", "o", "u", "t", "u", "b", "e", ".", "c", "o", "m", "/", "@">>, IdChar)>>)
  IN  IF urlOrUsername = <<>> THEN None
      ELSE IF /\ Len(urlOrUsername) \in 22..24
              /\ OccursAt(urlOrUsername, 1, <<"U", "C">>)
              /\ Run(urlOrUsername, 3, IdChar) = Len(urlOrUsername) - 2
           THEN Some(urlOrUsername)
      ELSE IF found # None THEN found
      ELSE Some(urlOrUsername)

\* youtubeService.getVideoTranscript: the placeholder transcript
MockTranscript(videoId) ==
  <<"T", "h", "i", "s", " ", "i", "s", " ", "a", " ", "m", "o", "c", "k", "e",
    "d", " ", "t", "r", "a", "n", "s", "c", "r", "i", "p", "t", " ", "f", "o",
    "r", " ", "v", "i", "d", "e", "o", " ", "I", "D", " ">>
  \o videoId \o
  <<".", " ", "\n", " ", " ", " ", " ", " ", " ", "I", "n", " ", "a", " ",
    "r", "e", "a", "l", " ", "i", "m", "p", "l", "e", "m", "e", "n", "t", "a",
    "t", "i", "o", "n", ",", " ", "w", "e", " ", "w", "o", "u", "l", "d", " ",
    "f", "e", "t", "c", "h", " ", "t", "h", "e", " ", "a", "c", "t", "u", "a",
    "l", " ", "t", "r", "a", "n", "s", "c", "r", "i", "p", "t", " ", "u", "s",
    "i", "n", "g", " ", "Y", "o", "u", "T", "u", "b", "e", "'", "s", " ", "A",
    "P", "I", ".", "\n", " ", " ", " ", " ", " ", " ", "T", "h", "e", " ",
    "t", "r", "a", "n", "s", "c", "r", "i", "p", "t", " ", "w", "o", "u", "l",
    "d", " ", "c", "o", "n", "t", "a", "i", "n", " ", "t", "h", "e", " ", "s",
    "p", "o", "k", "e", "n", " ", "c", "o", "n", "t", "e", "n", "t", " ", "o",
    "f", " ", "t", "h", "e", " ", "v", "i", "d", "e", "o", ",", " ", "i", "n",
    "c", "l", "u", "d", "i", "n", "g", " ", "t", "i", "m", "e", "s", "t", "a",
    "m", "p", "s", ".", "\n", " ", " ", " ", " ", " ", " ", "T", "h", "i",
    "s", " ", "w", "o", "u", "l", "d", " ", "b", "e", " ", "p", "r", "o", "c",
    "e", "s", "s", "e", "d", " ", "a", "n", "d", " ", "c", "h", "u", "n", "k",
    "e", "d", " ", "f", "o", "r", " ", "u", "s", "e", " ", "i", "n", " ", "t",
    "h", "e", " ", "R", "A", "G", " ", "p", "i", "p", "e", "l", "i", "n", "e",
    ".", "\n", " ", " ", " ", " ", " ", " ", "F", "o", "r", " ", "n", "o",
    "w", ",", " ", "w", "e", "'", "r", "e", " ", "j", "u", "s", "t", " ", "r",
    "e", "t", "u", "r", "n", "i", "n", "g", " ", "t", "h", "i", "s", " ", "p",
    "l", "a", "c", "e", "h", "o", "l", "d", "e", "r", " ", "t", "e", "x", "t",
    " ", "f", "o", "r", " ", "d", "e", "m", "o", "n", "s", "t", "r", "a", "t",
    "i", "o", "n", " ", "p", "u", "r", "p", "o", "s", "e", "s", ".">>

\* instagramContentService.extractPostId
ExtractPostId(url) ==
  IF url = <<>> THEN None
  ELSE IF Len(url) = 11 /\ Run(url, 1, IdChar) = 11 THEN Some(url)
  ELSE FirstOf(<<
    CaptureRun(url, <<"i", "n", "s", "t", "a", "g", "r", "a", "m", ".", "c", "o", "m", "/",
      "p", "/">>, IdChar),
    CaptureRun(url, <<"i", "n", "s", "t", "a", "g", "r", "a", "m", ".", "c", "o", "m", "/",
      "r", "e", "e", "l", "/">>, IdChar),
    CaptureRun(url, <<"i", "n", "s", "t", "a", "g", "r", "a", "m", ".", "c", "o", "m", "/",
      "t", "v", "/">>, IdChar)>>)

\* instagramContentService.extractUsername
ExtractUsername(url) ==
  LET host  == <<"i", "n", "s", "t", "a", "g", "r", "a", "m", ".", "c", "o", "m", "/">>
      \* /instagram\.com\/([a-zA-Z0-9._]+)\/?$/: a run of name characters that
      \* ends the url, or is followed by the slash that ends it
      hits  == {i \in 1..Len(url) :
                  /\ OccursAt(url, i, host)
                  /\ \E n \in 1..Run(url, i + Len(host), NameChar) :
                       LET behind == i + Len(host) + n
                       IN  behind = Len(url) + 1
                           \/ (behind = Len(url) /\ url[behind] = "/")}
      first == CHOOSE i \in hits : \A j \in hits : i <= j
      name  == SubSeq(url, first + Len(host),
                      first + Len(host) + Run(url, first + Len(host), NameChar) - 1)
  IN  IF url = <<>> THEN None
      ELSE IF Run(url, 1, NameChar) = Len(url) THEN Some(url)
      ELSE IF url[1] = "@" THEN Some(SubSeq(url, 2, Len(url)))
      ELSE IF hits # {} THEN Some(name)
      ELSE None

\* instagramContentService.getMockPostData(postId).caption
MockCaption(postId) ==
  <<"T", "h", "i", "s", " ", "i", "s", " ", "a", " ", "m", "o", "c", "k", " ",
    "c", "a", "p", "t", "i", "o", "n", " ", "f", "o", "r", " ", "p", "o", "s",
    "t", " ">>
  \o postId \o
  <<".", " ", "#", "m", "o", "c", "k", "d", "a", "t", "a", " ", "#", "t", "e",
    "s", "t", "i", "n", "g", " ", "#", "i", "n", "s", "t", "a", "g", "r", "a",
    "m">>

\* instagramContentService.getMockComments
MockComments ==
  <<[username |-> <<"c", "o", "m", "m", "e", "n", "t", "e", "r", "1">>,
     text |->
      <<"T", "h", "i", "s", " ", "i", "s", " ", "a", "n", " ", "a", "m", "a",
        "z", "i", "n", "g", " ", "p", "o", "s", "t", "!", " ", "U+00F0",
        "U+0178", "U+201D", "U+00A5">>,
     replies |-> <<>>],
    [username |-> <<"c", "o", "m", "m", "e", "n", "t", "e", "r", "2">>,
     text |->
      <<"G", "r", "e", "a", "t", " ", "c", "o", "n", "t", "e", "n", "t", " ",
        "a", "s", " ", "a", "l", "w", "a", "y", "s", "!", " ", "K", "e", "e",
        "p", " ", "i", "t", " ", "u", "p", ".">>,
     replies |-> <<>>],
    [username |-> <<"c", "o", "m", "m", "e", "n", "t", "e", "r", "3">>,
     text |->
      <<"L", "o", "o", "k", "i", "n", "g", " ", "f", "o", "r", "w", "a", "r",
        "d", " ", "t", "o", " ", "m", "o", "r", "e", " ", "p", "o", "s", "t",
        "s", " ", "l", "i", "k", "e", " ", "t", "h", "i", "s", "!">>,
     replies |-> <<>>]>>

\* instagramContentService.getMockRecentPosts(username, count): the post ids
MockRecentPosts(username, count) ==
  [i \in 1..count |->
    <<"m", "o", "c", "k", "_", "p", "o", "s", "t", "_">>
       \o Decimal(i)
       \o <<"_">> \o username]

(***************************************************************************)
(* contentIngestion, one step per awaited call                             *)
(***************************************************************************)
\* shortest source text an ingestion accepts
MinContentLength == 100
\* options.maxVideos || 5 and options.maxPosts || 10
defaultMaxVideos == 5
defaultMaxPosts == 10

\* options.chunkSize || 1500 and options.overlap || 150; 1000 and 100 for an
\* Instagram post
DefaultChunkSize(contentType) == IF contentType = INSTAGRAM_POST THEN 1000 ELSE 1500
DefaultOverlap(contentType) == IF contentType = INSTAGRAM_POST THEN 100 ELSE 150

InvalidVideo == "Invalid YouTube video URL or ID"
InvalidChannel == "Invalid YouTube channel URL or ID"
InvalidPost == "Invalid Instagram post URL or ID"
InvalidUsername == "Invalid Instagram username"
YouTubeApiError == "YouTube API error"
NoTranscript == "Failed to get enough transcript content from the video"
NotEnoughText == "Not enough text content in the post and comments"
TextTooShort == "Text content too short"
NoVideos == "No suitable videos found for this channel"
NoPosts == "No posts found for this account"

NoIngestOptions ==
  [chunkSize |-> None, overlap |-> None, maxVideos |-> None, maxPosts |-> None]

NoResult ==
  [success |-> FALSE, contentType |-> "", contentId |-> <<>>, chunksProcessed |-> 0,
   totalTokens |-> 0, error |-> ""]

\* an ingestion of one video, post or text: its arguments, locals, position
\* and, once it has resolved, its result
NoIngest ==
  [pc |-> "idle", op |-> "none", userId |-> "", options |-> NoIngestOptions,
   contentType |-> "", contentId |-> <<>>, caption |-> <<>>, source |-> <<>>,
   cleaned |-> <<>>, chunks |-> <<>>, embedded |-> <<>>, result |-> NoResult]

NoBatchResult ==
  [success |-> FALSE, contentType |-> "", error |-> "", total |-> 0,
   successful |-> 0, failed |-> 0]

\* an ingestion of a channel or an account: items are the ids listed, started
\* the ids handed to the item ingestion so far, results what it answered
NoBatch ==
  [pc |-> "idle", op |-> "none", userId |-> "", options |-> NoIngestOptions,
   contentType |-> "", contentId |-> <<>>, items |-> <<>>, started |-> <<>>,
   results |-> <<>>, result |-> NoBatchResult]

IdleIngestion == ingest = NoIngest /\ batch = NoBatch

\* the catch blocks: { success: false, contentType, error: error.message }
Failure(contentType, error) ==
  [NoResult EXCEPT !.contentType = contentType, !.error = error]

Resolve(call, result) == [call EXCEPT !.pc = "resolved", !.result = result]

\* chunksWithEmbeddings.reduce((total, chunk) => total + (chunk.tokenEstimate || 0), 0)
TotalTokens(chunkList) ==
  LET Sum[i \in 0..Len(chunkList)] ==
        IF i = 0 THEN 0 ELSE Sum[i - 1] + Prop(chunkList[i], "tokenEstimate", 0)
  IN  Sum[Len(chunkList)]

\* `custom_${Date.now()}_${Math.floor(Math.random() * 1000)}`
CustomId(now, random) ==
  <<"c", "u", "s", "t", "o", "m", "_">> \o Decimal(now) \o <<"_">> \o Decimal(random)

\* ingestInstagramPost, lines 186-199: the caption followed by the comments
\* and their replies
RepliesText(replies) ==
  LET Join[i \in 0..Len(replies)] ==
        IF i = 0 THEN <<>>
        ELSE Join[i - 1]
             \o <<"\n", "R", "e", "p", "l", "y", " ", "b", "y", " ">>
             \o replies[i].username \o <<":", " ">> \o replies[i].text
  IN  Join[Len(replies)]

ContentText(caption, comments) ==
  LET Join[i \in 0..Len(comments)] ==
        IF i = 0 THEN caption
        ELSE Join[i - 1]
             \o <<"\n", "\n", "C", "o", "m", "m", "e", "n", "t", " ", "b", "y", " ">>
             \o comments[i].username \o <<":", " ">> \o comments[i].text
             \o RepliesText(comments[i].replies)
  IN  Join[Len(comments)]

\* the call of textProcessor.chunkText, and the chunker at rest
StartChunker(s, size, ov) ==
  /\ text' = s /\ chunkSize' = size /\ overlap' = ov
  /\ startChar' = 0 /\ chunks' = <<>> /\ chunkPc' = "entry"

StopChunker ==
  /\ text' = <<>> /\ chunkSize' = 0 /\ overlap' = 0
  /\ startChar' = 0 /\ chunks' = <<>> /\ chunkPc' = "idle"

\* the length check on the text as fetched, then cleaning and the call of
\* chunkText (ingestYouTubeVideo lines 34-42, ingestInstagramPost lines
\* 201-207, ingestCustomText lines 334-343)
CheckCleanChunk(call, raw, cleaned, error) ==
  IF raw = <<>> \/ Len(raw) < MinContentLength
  THEN /\ ingest' = Resolve(call, Failure(call.contentType, error))
       /\ UNCHANGED chunkVars
  ELSE /\ ingest' = [call EXCEPT !.pc = "chunking", !.source = raw, !.cleaned = cleaned]
       /\ StartChunker(cleaned,
                       OrDefault(call.options.chunkSize, DefaultChunkSize(call.contentType)),
                       OrDefault(call.options.overlap, DefaultOverlap(call.contentType)))

\* ingestYouTubeVideo, lines 21-31: the video id, then the request for the
\* video's details
BeginYouTubeVideo(videoUrl, userId, options) ==
  LET videoId == ExtractVideoId(videoUrl)
      call == [NoIngest EXCEPT !.op = "ingestYouTubeVideo", !.userId = userId,
                               !.options = options, !.contentType = YOUTUBE_VIDEO]
  IN  /\ ingest.pc = "idle"
      /\ ingest' = IF videoId = None
                   THEN Resolve(call, Failure(YOUTUBE_VIDEO, InvalidVideo))
                   ELSE [call EXCEPT !.pc = "details", !.contentId = Get(videoId, <<>>)]
      /\ UNCHANGED <<chunkVars, clientVars, dbVars, lastOp, query>>

\* line 31: the details arrive, or getVideoDetails throws
VideoDetails ==
  /\ ingest.pc = "details"
  /\ \/ ingest' = [ingest EXCEPT !.pc = "transcript"]
     \/ ingest' = Resolve(ingest, Failure(YOUTUBE_VIDEO, YouTubeApiError))
  /\ UNCHANGED <<batch, chunkVars, clientVars, dbVars, lastOp, query>>

\* lines 32-42: the transcript arrives, is checked, cleaned and chunked
VideoTranscript ==
  /\ ingest.pc = "transcript"
  /\ LET transcript == MockTranscript(ingest.contentId)
     IN  CheckCleanChunk(ingest, transcript, CleanTranscript(transcript), NoTranscript)
  /\ UNCHANGED <<batch, clientVars, dbVars, lastOp, query>>

\* ingestInstagramPost, lines 171-181: the post id, then the request for the
\* post's data
BeginInstagramPost(postUrl, userId, options) ==
  LET postId == ExtractPostId(postUrl)
      call == [NoIngest EXCEPT !.op = "ingestInstagramPost", !.userId = userId,
                               !.options = options, !.contentType = INSTAGRAM_POST]
  IN  /\ ingest.pc = "idle"
      /\ ingest' = IF postId = None
                   THEN Resolve(call, Failure(INSTAGRAM_POST, InvalidPost))
                   ELSE [call EXCEPT !.pc = "post", !.contentId = Get(postId, <<>>)]
      /\ UNCHANGED <<chunkVars, clientVars, dbVars, lastOp, query>>

\* what the Graph API may hold for a post (getPostData and getPostComments
\* answer with the mock data when they cannot reach it)
PostCaptions(postId) == {MockCaption(postId), <<>>}
PostComments ==
  {<<>>, MockComments,
   <<[username |-> <<"u">>, text |-> <<"t">>,
      replies |-> <<[username |-> <<"v">>, text |-> <<"r">>]>>]>>}

\* line 181: the post's data arrive
PostData ==
  /\ ingest.pc = "post"
  /\ \E caption \in PostCaptions(ingest.contentId) :
       ingest' = [ingest EXCEPT !.pc = "comments", !.caption = caption]
  /\ UNCHANGED <<batch, chunkVars, clientVars, dbVars, lastOp, query>>

\* lines 182-207: the comments arrive; the text is put together, checked,
\* cleaned and chunked
PostCommentsFetched ==
  /\ ingest.pc = "comments"
  /\ \E comments \in PostComments :
       LET contentText == ContentText(ingest.caption, comments)
       IN  CheckCleanChunk(ingest, contentText, CleanText(contentText), NotEnoughText)
  /\ UNCHANGED <<batch, clientVars, dbVars, lastOp, query>>

\* ingestCustomText, lines 332-343
BeginCustomText(t, userId, title, options, now, random) ==
  LET call == [NoIngest EXCEPT !.op = "ingestCustomText", !.userId = userId,
                               !.options = options, !.contentType = CUSTOM_TEXT,
                               !.contentId = CustomId(now, random)]
  IN  /\ ingest.pc = "idle"
      /\ CheckCleanChunk([call EXCEPT !.contentId =
                            IF t = <<>> \/ Len(t) < MinContentLength THEN <<>> ELSE @],
                         t, CleanText(t), TextTooShort)
      /\ UNCHANGED <<clientVars, dbVars, lastOp, query>>

\* chunkText has returned; embedChunks is called
IngestChunked ==
  /\ ingest.pc = "chunking" /\ chunkPc = "done"
  /\ ingest' = [ingest EXCEPT !.pc = "embedding", !.chunks = chunks]
  /\ StopChunker
  /\ UNCHANGED <<batch, clientVars, dbVars, lastOp, query>>

\* embedChunks resolves or rejects; with the embeddings storeContentChunks is
\* called, which tests the client before anything else
IngestEmbedded ==
  /\ ingest.pc = "embedding"
  /\ \E out \in EmbedChunks(ingest.chunks) :
       ingest' =
         IF ~out.ok THEN Resolve(ingest, Failure(ingest.contentType, out.error))
         ELSE IF ~SupabaseIsConfigured
         THEN Resolve(ingest, Failure(ingest.contentType, NotInitializedSupabase))
         ELSE [ingest EXCEPT !.pc = "storing", !.embedded = out.results]
  /\ UNCHANGED <<batch, chunkVars, clientVars, dbVars, lastOp, query>>

\* storeContentChunks resolves (with [] for an empty list, without a request)
\* or rejects, and the ingestion returns its result
IngestStored ==
  /\ ingest.pc = "storing"
  /\ LET success == [NoResult EXCEPT !.success = TRUE,
                                     !.contentType = ingest.contentType,
                                     !.contentId = ingest.contentId,
                                     !.chunksProcessed = Len(ingest.embedded),
                                     !.totalTokens = TotalTokens(ingest.embedded)]
     IN  IF ingest.embedded = <<>>
         THEN /\ ingest' = Resolve(ingest, success)
              /\ UNCHANGED content_chunks
         ELSE \/ /\ content_chunks' =
                      InsertRows(content_chunks,
                                 ChunkRecords(ingest.embedded, ingest.userId,
                                              ingest.contentType, ingest.contentId,
                                              "source", "meta"))
                 /\ ingest' = Resolve(ingest, success)
              \/ /\ ingest' = Resolve(ingest, Failure(ingest.contentType, DatabaseError))
                 /\ UNCHANGED content_chunks
  /\ UNCHANGED <<batch, chunkVars, clientVars, content_sources, chat_history, lastOp, query>>

\* the caller of a single ingestion has its result
IngestDone ==
  /\ ingest.pc = "resolved" /\ batch.pc = "idle"
  /\ ingest' = NoIngest
  /\ UNCHANGED <<batch, chunkVars, clientVars, dbVars, lastOp, query>>

\* ingestYouTubeChannel, lines 93-101
IngestYouTubeChannel(channelUrl, userId, options) ==
  LET channelId == ExtractChannelId(channelUrl)
      call == [NoBatch EXCEPT !.op = "ingestYouTubeChannel", !.userId = userId,
                              !.options = options, !.contentType = YOUTUBE_CHANNEL]
  IN  /\ batch.pc = "idle" /\ ingest.pc = "idle"
      /\ batch' = IF channelId = None
                  THEN Resolve(call, [NoBatchResult EXCEPT !.contentType = YOUTUBE_CHANNEL,
                                                           !.error = InvalidChannel])
                  ELSE [call EXCEPT !.pc = "details", !.contentId = Get(channelId, <<>>)]
      /\ UNCHANGED <<ingest, chunkVars, clientVars, dbVars, lastOp, query>>

BatchFailure(error) ==
  Resolve(batch, [NoBatchResult EXCEPT !.contentType = batch.contentType, !.error = error])

\* line 101: the channel's details arrive, or getChannelDetails throws
ChannelDetails ==
  /\ batch.pc = "details"
  /\ \/ batch' = [batch EXCEPT !.pc = "listing"]
     \/ batch' = BatchFailure(YouTubeApiError)
  /\ UNCHANGED <<ingest, chunkVars, clientVars, dbVars, lastOp, query>>

\* lines 119-131 and 284-296: with the items listed storeContentSource is
\* called, which tests the client before anything else
ItemsListed(items, none) ==
  batch' = IF items = <<>> THEN BatchFailure(none)
           ELSE IF ~SupabaseIsConfigured THEN BatchFailure(NotInitializedSupabase)
           ELSE [batch EXCEPT !.pc = "source", !.items = items]

\* ids of videos and posts as the services list them
VideoIds == {Rep("a", 11), <<"d", "Q", "w", "4", "w", "9", "W", "g", "X", "c", "Q">>}
PostIds == {Rep("1", 17), <<"C", "x", "Y", "z", "1", "2", "3", "4", "5", "6", "7">>}

\* the listings a service may answer with: none, one or two ids, also twice
\* the same, never more than asked for
ItemLists(ids, atMost) ==
  {list \in UNION {[1..k -> ids] : k \in 0..2} : Len(list) <= atMost}

\* lines 111-117: the videos arrive, or getChannelVideos throws
ChannelVideos ==
  /\ batch.pc = "listing" /\ batch.op = "ingestYouTubeChannel"
  /\ \/ \E videos \in ItemLists(VideoIds, OrDefault(batch.options.maxVideos, defaultMaxVideos)) :
          ItemsListed(videos, NoVideos)
     \/ batch' = BatchFailure(YouTubeApiError)
  /\ UNCHANGED <<ingest, chunkVars, clientVars, dbVars, lastOp, query>>

\* ingestInstagramAccount, lines 259-269
IngestInstagramAccount(username, userId, options) ==
  LET cleanUsername == ExtractUsername(username)
      call == [NoBatch EXCEPT !.op = "ingestInstagramAccount", !.userId = userId,
                              !.options = options, !.contentType = INSTAGRAM_ACCOUNT]
  IN  /\ batch.pc = "idle" /\ ingest.pc = "idle"
      /\ batch' = IF cleanUsername = None
                  THEN Resolve(call, [NoBatchResult EXCEPT !.contentType = INSTAGRAM_ACCOUNT,
                                                           !.error = InvalidUsername])
                  ELSE [call EXCEPT !.pc = "account", !.contentId = Get(cleanUsername, <<>>)]
      /\ UNCHANGED <<ingest, chunkVars, clientVars, dbVars, lastOp, query>>

\* line 269: the account's data arrive (mock data when the API cannot be reached)
AccountData ==
  /\ batch.pc = "account"
  /\ batch' = [batch EXCEPT !.pc = "listing"]
  /\ UNCHANGED <<ingest, chunkVars, clientVars, dbVars, lastOp, query>>

\* lines 272-277: the posts arrive, from the API or the mock posts
AccountPosts ==
  /\ batch.pc = "listing" /\ batch.op = "ingestInstagramAccount"
  /\ LET maxPosts == OrDefault(batch.options.maxPosts, defaultMaxPosts)
     IN  \/ \E posts \in ItemLists(PostIds, maxPosts) : ItemsListed(posts, NoPosts)
         \/ ItemsListed(MockRecentPosts(batch.contentId, maxPosts), NoPosts)
  /\ UNCHANGED <<ingest, chunkVars, clientVars, dbVars, lastOp, query>>

\* lines 120-131 and 285-296: the content source is stored, or the insert fails
BatchSourceStored ==
  /\ batch.pc = "source"
  /\ \/ /\ content_sources' =
             InsertRows(content_sources,
                        <<[user_id |-> batch.userId, source_type |-> batch.contentType,
                           source_name |-> "name", source_url |-> "url",
                           metadata |-> "meta"]>>)
        /\ batch' = [batch EXCEPT !.pc = "items"]
     \/ /\ batch' = BatchFailure(DatabaseError)
        /\ UNCHANGED content_sources
  /\ UNCHANGED <<ingest, chunkVars, clientVars, content_chunks, chat_history, lastOp, query>>

\* lines 135-139 and 300-304: the loop hands the next item to the item ingestion
BatchItem ==
  /\ batch.pc = "items" /\ ingest.pc = "idle" /\ Len(batch.started) < Len(batch.items)
  /\ LET id == batch.items[Len(batch.started) + 1]
     IN  /\ IF batch.op = "ingestYouTubeChannel"
            THEN BeginYouTubeVideo(id, batch.userId, batch.options)
            ELSE BeginInstagramPost(id, batch.userId, batch.options)
         /\ batch' = [batch EXCEPT !.started = Append(@, id)]

\* results.push(result)
BatchItemDone ==
  /\ batch.pc = "items" /\ ingest.pc = "resolved"
  /\ batch' = [batch EXCEPT !.results = Append(@, ingest.result)]
  /\ ingest' = NoIngest
  /\ UNCHANGED <<chunkVars, clientVars, dbVars, lastOp, query>>

\* lines 141-152 and 306-318: the summary
BatchSummarize ==
  /\ batch.pc = "items" /\ ingest.pc = "idle" /\ Len(batch.started) = Len(batch.items)
  /\ LET successCount == Len(SelectSeq(batch.results, LAMBDA r : r.success))
     IN  batch' = Resolve(batch, [success     |-> successCount > 0,
                                  contentType |-> batch.contentType,
                                  error       |-> "",
                                  total       |-> Len(batch.items),
                                  successful  |-> successCount,
                                  failed      |-> Len(batch.items) - successCount])
  /\ UNCHANGED <<ingest, chunkVars, clientVars, dbVars, lastOp, query>>

\* the caller of a channel or account ingestion has its result
BatchDone ==
  /\ batch.pc = "resolved"
  /\ batch' = NoBatch
  /\ UNCHANGED <<ingest, chunkVars, clientVars, dbVars, lastOp, query>>

(***************************************************************************)
(* The repository alone: chunks stored and searched by direct calls        *)
(***************************************************************************)
IdleChunker ==
  /\ text = <<>> /\ chunkSize = 0 /\ overlap = 0
  /\ startChar = 0 /\ chunks = <<>> /\ chunkPc = "idle"

\* the chunks handed to storeContentChunks: one character of text each
RepoChunks ==
  {[text |-> <<"x">>, startChar |-> 0, endChar |-> 1, tokenEstimate |-> 1,
    embedding |-> v] : v \in Vectors}

RepoChunkLists(n) == UNION {[1..k -> RepoChunks] : k \in 0..Min(n, 2)}

\* a content type with a content ID of that type
RepoContents == {<<YOUTUBE_VIDEO, "v1">>, <<CUSTOM_TEXT, "t1">>}

NoFilter == [contentTypes |-> {}, contentIds |-> {}, startDate |-> None, endDate |-> None]

RepoFilters ==
  {NoFilter,
   [NoFilter EXCEPT !.contentTypes = {YOUTUBE_VIDEO}],
   [NoFilter EXCEPT !.contentTypes = {CUSTOM_TEXT}],
   [NoFilter EXCEPT !.contentIds = {"t1"}],
   [NoFilter EXCEPT !.startDate = Some(1)],
   [NoFilter EXCEPT !.endDate = Some(1)]}

RepoOptions ==
  {[threshold |-> t, matchCount |-> m] @@ f :
     t \in {None, Some(80)},
     m \in {None} \cup {Some(k) : k \in 0..MaxMatchCount},
     f \in RepoFilters}

RepoInit ==
  /\ IdleChunker /\ IdleClients /\ EmptyDb
  /\ lastOp = NoOp /\ query = NoQuery /\ IdleIngestion

RepoInitialize == \E url, key \in {"", "set"} : InitializeSupabase(url, key)

\* direct calls are made one after the other: the caller takes the outcome of
\* one before it makes the next
Idle == lastOp.name = "none" /\ query.pc = "idle"

TakeOutcome ==
  /\ lastOp.name # "none"
  /\ lastOp' = NoOp
  /\ UNCHANGED <<ingestVars, chunkVars, clientVars, dbVars, query>>

RepoStore ==
  /\ Idle
  /\ \E list \in RepoChunkLists(MaxRows - Len(content_chunks)),
        userId \in Owners, content \in RepoContents :
          StoreContentChunks(list, userId, content[1], content[2], "source", "meta")

RepoFind ==
  /\ Idle
  /\ \E q \in Vectors, userId \in Owners, options \in RepoOptions :
       FindSimilarChunks(q, userId, options)

RepoNext == RepoInitialize \/ RepoStore \/ RepoFind \/ TakeOutcome

RepoSpec == RepoInit /\ [][RepoNext]_vars

\* the call of findSimilarChunks that has just returned, and its arguments
FoundChunks == lastOp.name = "findSimilarChunks" /\ lastOp.outcome = "returned"
SimilarityOfRow(i) == Similarity(content_chunks[i].embedding, lastOp.args[1])

\* C2: findSimilarChunks(queryEmbedding, A, options) returns only chunks whose
\* owner is A, for every threshold, matchCount and filter, even when a chunk
\* of another owner has a higher similarity.
C2_OnlyTheOwnersChunks ==
  FoundChunks =>
    \A i \in 1..Len(lastOp.data) :
      /\ lastOp.data[i].id \in 1..Len(content_chunks)
      /\ content_chunks[lastOp.data[i].id].user_id = lastOp.args[2]

\* a chunk of A is returned while B holds a chunk of higher similarity
C2_Witness ==
  /\ FoundChunks /\ lastOp.args[2] = "A" /\ Len(lastOp.data) = 1
  /\ \E j \in 1..Len(content_chunks) :
       /\ content_chunks[j].user_id = "B"
       /\ SimilarityOfRow(j) > lastOp.data[1].similarity

\* C3: every chunk returned by findSimilarChunks has a similarity strictly
\* greater than the threshold (default 0.75), the list is ordered by
\* similarity descending, and it holds at most matchCount (default 5) chunks.
C3_AboveThresholdSortedLimited ==
  FoundChunks =>
    LET data       == lastOp.data
        threshold  == IF lastOp.args[3].threshold = None THEN 75
                      ELSE Get(lastOp.args[3].threshold, 75)
        matchCount == IF lastOp.args[3].matchCount = None THEN 5
                      ELSE Get(lastOp.args[3].matchCount, 5)
    IN  /\ \A i \in 1..Len(data) :
             /\ data[i].similarity = SimilarityOfRow(data[i].id)
             /\ data[i].similarity > threshold
        /\ \A i, j \in 1..Len(data) : i < j => data[i].similarity >= data[j].similarity
        /\ Len(data) <= matchCount

\* a chunk is returned for a threshold given in the options, while another
\* stored chunk of the owner is exactly at that threshold
C3_Witness ==
  /\ FoundChunks /\ Len(lastOp.data) = 1
  /\ lastOp.args[3].threshold = Some(80)
  /\ \E j \in 1..Len(content_chunks) :
       /\ content_chunks[j].user_id = lastOp.args[2]
       /\ SimilarityOfRow(j) = 80

\* C4: with a contentTypes or contentIds filter, findSimilarChunks returns the
\* matchCount most similar chunks among the owner's chunks that exceed the
\* threshold and satisfy the filter: all of them when there are at most
\* matchCount.
C4_LimitAfterFilters ==
  (FoundChunks /\ (lastOp.args[3].contentTypes # {} \/ lastOp.args[3].contentIds # {})) =>
    LET options    == lastOp.args[3]
        threshold  == IF options.threshold = None THEN 75 ELSE Get(options.threshold, 75)
        matchCount == IF options.matchCount = None THEN 5 ELSE Get(options.matchCount, 5)
        matching   == {i \in 1..Len(content_chunks) :
                         /\ content_chunks[i].user_id = lastOp.args[2]
                         /\ SimilarityOfRow(i) > threshold
                         /\ options.contentTypes # {}
                              => content_chunks[i].content_type \in options.contentTypes
                         /\ options.contentIds # {}
                              => content_chunks[i].content_id \in options.contentIds}
    IN  Len(lastOp.data) = Min(matchCount, Cardinality(matching))

(***************************************************************************)
(* Queries: processQuery, and every repository and provider operation      *)
(* called directly, over a small store                                     *)
(***************************************************************************)
QueryTexts == {<<" ", "h", "i", "\n", "?">>}

QueryOptions ==
  {[NoQueryOptions EXCEPT !.threshold = t, !.maxChunks = m] :
     t \in {None, Some(0), Some(80)}, m \in {None, Some(1)}}

\* the chunks stored before a query: one character of text each
QueryChunks ==
  {[text |-> <<"x">>, startChar |-> 0, endChar |-> 1, tokenEstimate |-> 1,
    embedding |-> v] : v \in Vectors}

QueryChunkLists(n) == UNION {[1..k -> QueryChunks] : k \in 0..Min(n, 1)}

QueryInit ==
  /\ IdleChunker /\ IdleClients /\ EmptyDb
  /\ lastOp = NoOp /\ query = NoQuery /\ IdleIngestion

QueryInitialize ==
  /\ Idle
  /\ \/ \E url, key \in {"", "set"} : InitializeSupabase(url, key)
     \/ \E apiKey \in {"", "set"} : InitializeOpenai(apiKey)

QueryStoreChunks ==
  /\ Idle
  /\ \E list \in QueryChunkLists(MaxQueryRows - Len(content_chunks)),
        userId \in Owners :
          StoreContentChunks(list, userId, YOUTUBE_VIDEO, "v1", "source", "meta")

QueryStoreSource ==
  /\ Idle /\ Len(content_sources) < MaxSources
  /\ StoreContentSource("A", YOUTUBE_CHANNEL, "name", "url", "meta")

QueryStoreHistory ==
  /\ Idle /\ Len(chat_history) < MaxHistory
  /\ StoreChatHistory("A", <<"h", "i">>, <<5, 0>>, Apology, <<>>)

QueryFind ==
  /\ Idle
  /\ \E userId \in Owners, m \in {None, Some(1)} :
       FindSimilarChunks(<<5, 0>>, userId,
                         [threshold |-> None, matchCount |-> m] @@ NoFilter)

QueryRead ==
  /\ Idle
  /\ \E userId \in Owners :
       \/ GetChatHistory(userId, 20, 0)
       \/ GetUserContentSources(userId)
       \/ GetContentChunks(userId, "v1")

QueryProvider ==
  /\ Idle
  /\ \/ CreateEmbedding(<<"h", "i">>)
     \/ CreateChatCompletion(Messages(<<"h", "i">>, <<>>, "{}"))
     \/ \E textArray \in {<<>>, <<<<"h", "i">>>>} : CallGenerateEmbeddings(textArray)
     \/ \E chunkList \in {<<>>, <<[text |-> <<"x">>, startChar |-> 0, endChar |-> 1]>>} :
          CallEmbedChunks(chunkList)
     \/ GenerateResponse(<<"h", "i">>, <<>>, "{}")
     \/ GenerateSummary(<<"h", "i">>, 1)

QueryStart ==
  /\ Idle /\ Len(chat_history) < MaxHistory
  /\ \E userQuery \in QueryTexts, userId \in Owners, options \in QueryOptions :
       ProcessQuery(userQuery, userId, "persona", options)

QueryNext ==
  \/ QueryInitialize \/ QueryStoreChunks \/ QueryStoreSource \/ QueryStoreHistory
  \/ QueryFind \/ QueryRead \/ QueryProvider \/ TakeOutcome
  \/ QueryStart \/ QueryEmbedded \/ QuerySearched \/ QueryCompleted \/ QueryStored
  \/ QueryDone

QuerySpec == QueryInit /\ [][QueryNext]_vars

C6_FailuresReject ==
  /\ query.failed # {} => query.pc = "rejected"
  /\ query.pc = "returned" => query.response.kind = "completion"

\* C7: when the search returns no chunk, processQuery requests a completion
\* with an empty context and returns its answer with hasResults false rather
\* than an error; hasResults is true exactly when a chunk was retrieved.
C7_EmptySearchStillAnswers ==
  /\ (query.pc \in {"completing", "storing", "returned"} /\ query.similarChunks = <<>>)
       => /\ "completion" \in query.accessed
          /\ \E m \in query.messages : m.context = None /\ m.user = query.query
  /\ (query.pc = "returned" /\ "completion" \notin query.failed)
       => query.response = [kind |-> "completion", to |-> query.messages]
  /\ query.pc = "returned" => (query.hasResults <=> Len(query.similarChunks) >= 1)
  /\ (query.pc = "rejected" /\ "search" \in query.accessed)
       => (query.failed # {} \/ query.unconfigured # {})

\* the store holds a chunk, of another owner; the query found none of its
\* own and returned the completion's answer
C7_Witness ==
  /\ query.pc = "returned" /\ query.similarChunks = <<>> /\ ~query.hasResults
  /\ query.response.kind = "completion"
  /\ \E j \in 1..Len(content_chunks) : content_chunks[j].user_id # query.userId

(***************************************************************************)
(* The context of a query: chunks of any size stored before the query      *)
(***************************************************************************)
\* Array.prototype.join: the texts with sep between them
RECURSIVE Join(_, _)
Join(texts, sep) ==
  IF texts = <<>> THEN <<>>
  ELSE IF Len(texts) = 1 THEN texts[1]
  ELSE texts[1] \o sep \o Join(Tail(texts), sep)

\* generateResponse, line 43: the context texts combined for the prompt
CombinedContext(contextTexts) ==
  Join(contextTexts, <<"\n", "\n", "-", "-", "-", "\n", "\n">>)

\* a chunk of one character, and a chunk of 16001 characters as an ingestion
\* with a chunkSize option above the length of its text stores it
ContextChunks ==
  {[text |-> Rep("x", n), startChar |-> 0, endChar |-> n,
    tokenEstimate |-> EstimateTokenCount(Rep("x", n)), embedding |-> <<5, 0>>] :
     n \in {1, 16001}}

ContextStoreChunks ==
  /\ Idle /\ content_chunks = <<>>
  /\ \E chunk \in ContextChunks :
       StoreContentChunks(<<chunk>>, "A", CUSTOM_TEXT, "c1", "source", "meta")

ContextStart ==
  /\ Idle /\ Len(chat_history) < MaxHistory
  /\ \E userQuery \in QueryTexts, userId \in Owners :
       ProcessQuery(userQuery, userId, "persona", NoQueryOptions)

ContextNext ==
  \/ QueryInitialize \/ ContextStoreChunks \/ TakeOutcome
  \/ ContextStart \/ QueryEmbedded \/ QuerySearched \/ QueryCompleted \/ QueryStored
  \/ QueryDone

ContextSpec == QueryInit /\ [][ContextNext]_vars

\* C15: the context the query pipeline sends to the completion model is
\* never estimated at more than 4000 tokens (a quarter of its length, rounded
\* up), whatever the number and the size of the chunks retrieved.
C15_ContextWithinBudget ==
  \A m \in query.messages :
    \A contextTexts \in m.context :
      EstimateTokenCount(CombinedContext(contextTexts)) <= 4000

(***************************************************************************)
(* generateEmbeddings called with texts around the size limit              *)
(***************************************************************************)
\* texts of 32000 and of 32001 characters, estimated at 8000 and at 8001
\* tokens; 32000 characters followed by a blank, and 32001 blanks, which
\* cleanText brings back under the limit
LongTexts ==
  {Rep("a", 4 * maxContentLength),
   Rep("a", 4 * maxContentLength + 1),
   Rep("a", 4 * maxContentLength) \o <<" ">>,
   Rep(" ", 4 * maxContentLength + 1)}

ShortTexts == {<<"h", "i">>, <<" ">>}

\* batches of at most two texts, at most one of them long
EmbedBatches ==
  {<<>>} \cup {<<t>> : t \in ShortTexts \cup LongTexts}
         \cup {<<t, u>> : t \in ShortTexts, u \in ShortTexts \cup LongTexts}
         \cup {<<t, u>> : t \in LongTexts, u \in ShortTexts}

EmbedInitialize ==
  /\ Idle
  /\ \E apiKey \in {"", "set"} : InitializeOpenai(apiKey)

EmbedCall ==
  /\ Idle
  /\ \E textArray \in EmbedBatches : CallGenerateEmbeddings(textArray)

EmbedNext == EmbedInitialize \/ EmbedCall \/ TakeOutcome

EmbedSpec == QueryInit /\ [][EmbedNext]_vars

\* the estimates of the cleaned texts of the call that was made
EstimatesOfCall ==
  LET textArray == lastOp.args[1]
  IN  {EstimateTokenCount(CleanText(textArray[i])) : i \in 1..Len(textArray)}

\* C16: called with a configured client, generateEmbeddings fails with the
\* content-too-large error exactly when the cleaned text of some input is
\* estimated at more than 8000 tokens; whenever some estimate is above 8000
\* the call fails without any request to the provider, for any text of the
\* batch.
C16_TooLargeGuard ==
  lastOp.name = "generateEmbeddings"
    => LET estimates == EstimatesOfCall
       IN  /\ (\E t \in estimates : t > 8000)
                => /\ lastOp.outcome = "threw" /\ ~lastOp.accessed /\ lastOp.data = <<>>
                   /\ lastOp.client # "null" => lastOp.error = ContentTooLarge
           /\ (\A t \in estimates : t <= 8000) => lastOp.error # ContentTooLarge

\* a batch whose first text is short and whose second is one character over
\* the limit: rejected, nothing requested from the provider for either
C16_Witness ==
  /\ lastOp.name = "generateEmbeddings" /\ lastOp.client # "null"
  /\ Len(lastOp.args[1]) = 2
  /\ Len(lastOp.args[1][1]) = 2 /\ Len(lastOp.args[1][2]) = 32001
  /\ EstimatesOfCall = {1, 8001}
  /\ lastOp.outcome = "threw" /\ lastOp.error = ContentTooLarge /\ ~lastOp.accessed

(***************************************************************************)
(* DELETE /api/rag/content/:contentId                                      *)
(***************************************************************************)
AuthenticationRequired == "Authentication required"
NotAFunction == "vectorRepository.deleteContent is not a function"

\* routes/rag.js, lines 12-28 and 241-259: without a user ID the middleware
\* answers 401; otherwise the handler calls vectorRepository.deleteContent,
\* which vectorRepository does not define, so the call throws a TypeError and
\* the catch block answers 500 with its message.  No table is touched.
DeleteContentRoute(contentId, userId) ==
  /\ lastOp' =
       IF userId = ""
       THEN Threw("deleteContent", supabaseClient, <<contentId, userId>>,
                  AuthenticationRequired)
       ELSE Threw("deleteContent", supabaseClient, <<contentId, userId>>, NotAFunction)
  /\ UNCHANGED <<ingestVars, chunkVars, clientVars, dbVars, query>>

DeleteContent ==
  /\ Idle
  /\ \E content \in RepoContents, userId \in Owners \cup {""} :
       DeleteContentRoute(content[2], userId)

DeleteNext == RepoInitialize \/ RepoStore \/ DeleteContent \/ TakeOutcome

DeleteSpec == RepoInit /\ [][DeleteNext]_vars

\* C17: a delete request of an owner for a content ID, made with the
\* database configured, succeeds, and afterwards the store holds no chunk of
\* that owner with that content ID.
C17_DeleteRemovesChunks ==
  (/\ lastOp.name = "deleteContent" /\ lastOp.client # "null"
   /\ lastOp.args[2] # "")
    => /\ lastOp.outcome = "returned"
       /\ \A j \in 1..Len(content_chunks) :
            ~(/\ content_chunks[j].content_id = lastOp.args[1]
              /\ content_chunks[j].user_id = lastOp.args[2])

(***************************************************************************)
(* POST /api/rag/query                                                     *)
(***************************************************************************)
MessageRequired == "Query message is required"
NoStoreQueryAndResponse == "queryProcessor.storeQueryAndResponse is not a function"

\* routes/rag.js, lines 12-28 and 140-159: without a user ID the middleware
\* answers 401 and without a message the handler answers 400; otherwise the
\* handler calls processQuery(message, userId, options), the options of the
\* request taking the place of avatarConfig
PostQuery(message, userId) ==
  \/ /\ userId = ""
     /\ lastOp' = Threw("postQuery", openaiClient, <<message, userId>>,
                        AuthenticationRequired)
     /\ UNCHANGED <<ingestVars, chunkVars, clientVars, dbVars, query>>
  \/ /\ userId # "" /\ message = <<>>
     /\ lastOp' = Threw("postQuery", openaiClient, <<message, userId>>, MessageRequired)
     /\ UNCHANGED <<ingestVars, chunkVars, clientVars, dbVars, query>>
  \/ /\ userId # "" /\ message # <<>>
     /\ ProcessQuery(message, userId, "{}", NoQueryOptions)

\* lines 159-178: processQuery has returned to the handler, which asks
\* generateResponse for a second answer, with queryResults.context (a
\* property the result does not have) as its context
RouteGenerate ==
  /\ query.pc = "returned"
  /\ query' = GuardOrElse(query, OpenaiIsConfigured, "openai", NotInitializedOpenai,
                          [query EXCEPT !.pc = "responding"])
  /\ UNCHANGED <<ingestVars, chunkVars, clientVars, dbVars, lastOp>>

\* lines 178-201: the second answer (or the apology) arrives; the handler
\* calls queryProcessor.storeQueryAndResponse, which queryProcessor does not
\* define, and the catch block answers 500 with the TypeError's message
RouteRespond ==
  /\ query.pc = "responding"
  /\ query' = Reject(query, NoStoreQueryAndResponse)
  /\ UNCHANGED <<ingestVars, chunkVars, clientVars, dbVars, lastOp>>

\* the client has the error response
RouteDone ==
  /\ query.pc = "rejected"
  /\ query' = NoQuery
  /\ UNCHANGED <<ingestVars, chunkVars, clientVars, dbVars, lastOp>>

RoutePostQuery ==
  /\ Idle /\ Len(chat_history) < MaxHistory
  /\ \E message \in QueryTexts \cup {<<>>}, userId \in Owners \cup {""} :
       PostQuery(message, userId)

RouteNext ==
  \/ QueryInitialize \/ QueryStoreChunks \/ RoutePostQuery \/ TakeOutcome
  \/ QueryEmbedded \/ QuerySearched \/ QueryCompleted \/ QueryStored
  \/ RouteGenerate \/ RouteRespond \/ RouteDone

RouteSpec == QueryInit /\ [][RouteNext]_vars

\* C20: a query that fails towards its caller has left no record in the
\* chat history.
C20_NoRecordForFailedQuery ==
  query.pc = "rejected"
    => \A j \in 1..Len(chat_history) :
         ~(/\ chat_history[j].user_id = query.userId
           /\ chat_history[j].user_query = query.query
           /\ chat_history[j].query_embedding = query.queryEmbedding)

\* C21: the threshold, the maximum number of chunks and the content types
\* given in the options of a query are the ones its similarity search is
\* requested with, 0 included.
C21_SuppliedOptionsUsed ==
  "search" \in query.accessed
    => LET used == SearchOptions(query.options)
       IN  /\ \A t \in query.options.threshold : used.threshold = Some(t)
           /\ \A m \in query.options.maxChunks : used.matchCount = Some(m)
           /\ used.contentTypes = query.options.contentTypes

(***************************************************************************)
(* cleanText applied to every short text, and again to its result          *)
(***************************************************************************)
CleanAlphabet == {"a", " ", "\n", "\t", "\r"}

CleanTexts == UNION {[1..n -> CleanAlphabet] : n \in 0..MaxCleanLen}

\* textProcessor.cleanText called directly
CallCleanText(s) ==
  /\ lastOp' = Returned("cleanText", "null", <<s>>, FALSE, <<CleanText(s)>>)
  /\ UNCHANGED <<ingestVars, chunkVars, clientVars, dbVars, query>>

CleanOnce ==
  /\ Idle
  /\ \E s \in CleanTexts : CallCleanText(s)

\* cleanText applied to what it returned: the arguments become the first
\* input and the first result
CleanTwice ==
  /\ lastOp.name = "cleanText" /\ Len(lastOp.args) = 1
  /\ lastOp' = [lastOp EXCEPT !.args = <<lastOp.args[1], lastOp.data[1]>>,
                              !.data = <<CleanText(lastOp.data[1])>>]
  /\ UNCHANGED <<ingestVars, chunkVars, clientVars, dbVars, query>>

CleanNext == CleanOnce \/ CleanTwice \/ TakeOutcome

CleanSpec == RepoInit /\ [][CleanNext]_vars

\* C22: cleanText applied to a text it has cleaned returns that text.
C22_CleanTextIdempotent ==
  (lastOp.name = "cleanText" /\ Len(lastOp.args) = 2)
    => lastOp.data[1] = lastOp.args[2]

\* a text that cleaning changed, cleaned a second time
C22_Witness ==
  /\ lastOp.name = "cleanText" /\ Len(lastOp.args) = 2
  /\ lastOp.args[1] = <<"\t", "a", "\n">> /\ lastOp.args[2] = <<"a">>
  /\ lastOp.data[1] = <<"a">>

\* the characters of s that are not whitespace, in order
Words(s) == SelectSeq(s, LAMBDA c : c \notin WhiteSpace)

\* C23: the text cleanText returns has no carriage return and no tab, no two
\* spaces and no two newlines in a row, and no whitespace at its ends; it
\* keeps the other characters of the input in order, is empty for the empty
\* input, and has a newline when the input has a line break between two
\* words.
C23_CleanTextNormalises ==
  (lastOp.name = "cleanText" /\ Len(lastOp.args) = 1)
    => LET s == lastOp.args[1]
           r == lastOp.data[1]
       IN  /\ \A i \in 1..Len(r) : r[i] \notin {"\r", "\t"}
           /\ \A i \in 1..(Len(r) - 1) : r[i] \in {" ", "\n"} => r[i + 1] # r[i]
           /\ r # <<>> => r[1] \notin WhiteSpace /\ r[Len(r)] \notin WhiteSpace
           /\ Words(r) = Words(s)
           /\ s = <<>> => r = <<>>
           /\ (\E i, j, k \in 1..Len(s) :
                 /\ i < j /\ j < k /\ s[j] = "\n"
                 /\ s[i] \notin WhiteSpace /\ s[k] \notin WhiteSpace)
                => \E i \in 1..Len(r) : r[i] = "\n"

(***************************************************************************)
(* cleanTranscript applied to transcripts of one or two lines              *)
(***************************************************************************)
\* what a line starts with: nothing, '[0:1:2] ', '(1:2) ', 'Speaker 1: ',
\* 'Bob: ', 'Speaker 1 '
LinePrefixes ==
  {<<>>,
   <<"[", "0", ":", "1", ":", "2", "]", " ">>,
   <<"(", "1", ":", "2", ")", " ">>,
   <<"S", "p", "e", "a", "k", "e", "r", " ", "1", ":", " ">>,
   <<"B", "o", "b", ":", " ">>,
   <<"S", "p", "e", "a", "k", "e", "r", " ", "1", " ">>}

\* what follows: 'hi', 'Hello you', 'at (1:2) ok'
LineBodies ==
  {<<"h", "i">>,
   <<"H", "e", "l", "l", "o", " ", "y", "o", "u">>,
   <<"a", "t", " ", "(", "1", ":", "2", ")", " ", "o", "k">>}

Lines == {p \o b : p \in LinePrefixes, b \in LineBodies}

Transcripts == Lines \cup {l \o <<"\n">> \o m : l, m \in Lines}

\* textProcessor.cleanTranscript called directly
CallCleanTranscript(transcript) ==
  /\ lastOp' = Returned("cleanTranscript", "null", <<transcript>>, FALSE,
                        <<CleanTranscript(transcript)>>)
  /\ UNCHANGED <<ingestVars, chunkVars, clientVars, dbVars, query>>

TranscriptClean ==
  /\ Idle
  /\ \E transcript \in Transcripts : CallCleanTranscript(transcript)

TranscriptNext == TranscriptClean \/ TakeOutcome

TranscriptSpec == RepoInit /\ [][TranscriptNext]_vars

\* C24: a transcript without a bracket, a parenthesis or a colon holds no
\* timestamp marker and no label of the form `Name:` or `Speaker N:`, so
\* cleanTranscript changes nothing but its whitespace: the other characters
\* of the result are those of the input, in order.
C24_TranscriptKeepsWords ==
  (/\ lastOp.name = "cleanTranscript"
   /\ \A i \in 1..Len(lastOp.args[1]) : lastOp.args[1][i] \notin {"[", "(", ":"})
    => Words(lastOp.data[1]) = Words(lastOp.args[1])

(***************************************************************************)
(* cosineSimilarity applied to every pair of short vectors                 *)
(***************************************************************************)
\* the loop of lines 113-117 run over the first n components: the sum of
\* a[i] * b[i]
RECURSIVE SumOfProducts(_, _, _)
SumOfProducts(a, b, n) ==
  IF n = 0 THEN 0 ELSE SumOfProducts(a, b, n - 1) + a[n] * b[n]

\* cosineSimilarity answering 1 for two equal vectors before it looks at
\* their magnitudes
CosineSimilarityOfEqualFirst(vec1, vec2) ==
  IF vec1 = None \/ vec2 = None \/ Len(Get(vec1, <<>>)) # Len(Get(vec2, <<>>))
  THEN 0
  ELSE IF vec1 = vec2
  THEN 100
  ELSE LET a    == Get(vec1, <<>>)
           b    == Get(vec2, <<>>)
           mag1 == Sqrt(SumOfProducts(a, a, Len(a)))
           mag2 == Sqrt(SumOfProducts(b, b, Len(a)))
       IN  IF mag1 = 0 \/ mag2 = 0
           THEN 0
           ELSE (100 * SumOfProducts(a, b, Len(a))) \div (mag1 * mag2)

\* embeddingService.cosineSimilarity, in hundredths; a missing vector is None
CosineSimilarity(vec1, vec2) ==
  IF vec1 = None \/ vec2 = None \/ Len(Get(vec1, <<>>)) # Len(Get(vec2, <<>>))
  THEN 0
  ELSE LET a    == Get(vec1, <<>>)
           b    == Get(vec2, <<>>)
           mag1 == Sqrt(SumOfProducts(a, a, Len(a)))
           mag2 == Sqrt(SumOfProducts(b, b, Len(a)))
       IN  IF mag1 = 0 \/ mag2 = 0
           THEN 0
           ELSE (100 * SumOfProducts(a, b, Len(a))) \div (mag1 * mag2)

\* no vector, or a vector of at most MaxDim components
ShortVectors ==
  {None} \cup {Some(v) : v \in UNION {[1..n -> {-1, 0, 2}] : n \in 0..MaxDim}}

\* embeddingService.cosineSimilarity called directly
CallCosineSimilarity(vec1, vec2) ==
  /\ lastOp' = Returned("cosineSimilarity", "null", <<vec1, vec2>>, FALSE,
                        <<CosineSimilarity(vec1, vec2)>>)
  /\ UNCHANGED <<ingestVars, chunkVars, clientVars, dbVars, query>>

SimilarityCall ==
  /\ Idle
  /\ \E vec1, vec2 \in ShortVectors : CallCosineSimilarity(vec1, vec2)

SimilarityNext == SimilarityCall \/ TakeOutcome

SimilaritySpec == RepoInit /\ [][SimilarityNext]_vars

\* the vector is there and every component of it is 0 (the empty vector too)
ZeroVector(vec) == \E v \in vec : \A i \in 1..Len(v) : v[i] = 0

\* C25: cosineSimilarity returns a number for every pair of arguments, and
\* returns 0 when a vector is missing, when the lengths differ and when a
\* vector has magnitude zero, two empty vectors included.
C25_ZeroWithoutDivision ==
  lastOp.name = "cosineSimilarity"
    => /\ lastOp.outcome = "returned" /\ lastOp.data[1] \in Int
       /\ (\/ lastOp.args[1] = None \/ lastOp.args[2] = None
           \/ \E v \in lastOp.args[1], w \in lastOp.args[2] : Len(v) # Len(w)
           \/ ZeroVector(lastOp.args[1]) \/ ZeroVector(lastOp.args[2]))
            => lastOp.data[1] = 0

\* two empty vectors: the loop does not run, both magnitudes are 0
C25_Witness ==
  /\ lastOp.name = "cosineSimilarity"
  /\ lastOp.args = <<Some(<<>>), Some(<<>>)>>
  /\ lastOp.data = <<0>>

\* C29: a request to POST /api/rag/query fails towards its client only if
\* a client was not configured, the query was too large or an external call
\* failed.
C29_QueryRouteAnswers ==
  query.pc = "rejected"
    => \/ query.unconfigured # {} \/ query.failed # {}
       \/ query.error = ContentTooLarge

(***************************************************************************)
(* Ingestion: texts, videos, posts, channels and accounts ingested one     *)
(* call after the other                                                    *)
(***************************************************************************)
\* 99 characters; 100 blanks; 100 characters; 100 characters of which 98 are
\* blanks
IngestTexts ==
  {Rep("a", MinContentLength - 1), Rep(" ", MinContentLength),
   Rep("a", MinContentLength),
   <<"a">> \o Rep(" ", MinContentLength - 2) \o <<"b">>}

\* chunkText returns more than one chunk only when the window start gets past
\* the end of the text, that is for an overlap below zero
IngestOptions ==
  {NoIngestOptions,
   [NoIngestOptions EXCEPT !.chunkSize = Some(60), !.overlap = Some(10)],
   [NoIngestOptions EXCEPT !.chunkSize = Some(200), !.overlap = Some(-1)],
   [NoIngestOptions EXCEPT !.maxPosts = Some(2)]}

IngestInit ==
  /\ IdleChunker /\ IdleClients /\ EmptyDb
  /\ lastOp = NoOp /\ query = NoQuery /\ IdleIngestion

NoIngestion == ingest.pc = "idle" /\ batch.pc = "idle"

IngestInitialize ==
  /\ NoIngestion
  /\ \/ \E url, key \in {"", "set"} : InitializeSupabase(url, key)
     \/ \E apiKey \in {"", "set"} : InitializeOpenai(apiKey)

IngestCustomText ==
  /\ NoIngestion /\ Len(content_chunks) < MaxStored
  /\ \E t \in IngestTexts, options \in IngestOptions, random \in {7} :
       BeginCustomText(t, "A", "title", options, 1, random)
  /\ UNCHANGED batch

IngestYouTubeVideo ==
  /\ NoIngestion /\ Len(content_chunks) < MaxStored
  /\ \E videoUrl \in VideoIds \cup {<<"h", "t", "t", "p", "s", ":", "/", "/", "y", "o", "u",
                                     "t", "u", ".", "b", "e", "/">> \o Rep("a", 11),
                                   <<"v", "i", "d", "e", "o">>},
        options \in IngestOptions :
       BeginYouTubeVideo(videoUrl, "A", options)
  /\ UNCHANGED batch

IngestInstagramPost ==
  /\ NoIngestion /\ Len(content_chunks) < MaxStored
  /\ \E postUrl \in PostIds, options \in IngestOptions :
       BeginInstagramPost(postUrl, "A", options)
  /\ UNCHANGED batch

IngestChannel ==
  /\ Len(content_sources) < MaxSources /\ Len(content_chunks) < MaxStored
  /\ \E channelUrl \in {<<>>, <<"c">>}, options \in IngestOptions :
       IngestYouTubeChannel(channelUrl, "A", options)

IngestAccount ==
  /\ Len(content_sources) < MaxSources /\ Len(content_chunks) < MaxStored
  /\ \E username \in {<<"@", "u">>, <<"u", "/", "u">>}, options \in IngestOptions :
       IngestInstagramAccount(username, "A", options)

\* chunkText runs inside the ingestion that called it
IngestChunkStep == ingest.pc = "chunking" /\ ChunkStep

\* the steps of an ingestion under way
IngestProgress ==
  \/ VideoDetails \/ VideoTranscript \/ PostData \/ PostCommentsFetched
  \/ IngestChunkStep \/ IngestChunked \/ IngestEmbedded \/ IngestStored
  \/ ChannelDetails \/ ChannelVideos \/ AccountData \/ AccountPosts
  \/ BatchSourceStored \/ BatchItem \/ BatchItemDone \/ BatchSummarize

IngestNext ==
  \/ IngestInitialize
  \/ IngestCustomText \/ IngestYouTubeVideo \/ IngestInstagramPost
  \/ IngestChannel \/ IngestAccount
  \/ IngestProgress
  \/ IngestDone \/ BatchDone

IngestSpec == IngestInit /\ [][IngestNext]_vars

\* the event loop runs every continuation that is ready, and chunkText is
\* synchronous code
FairIngestSpec == IngestSpec /\ WF_vars(IngestProgress)

\* C8: every ingest operation resolves, with {success: false, error} when a
\* step fails; a channel or account ingestion hands every listed item to the
\* item ingestion exactly once, in order, whatever the items before it
\* answered, and its successful and failed counts add up to the total.
C8_IngestionsResolve ==
  /\ [](ingest.pc = "resolved" /\ ~ingest.result.success => ingest.result.error # "")
  /\ [](batch.pc = "resolved" /\ ~batch.result.success /\ batch.result.total = 0
          => batch.result.error # "")
  /\ [](batch.pc = "resolved" /\ batch.result.error = ""
          => /\ batch.started = batch.items
             /\ Len(batch.results) = Len(batch.items)
             /\ batch.result.total = Len(batch.items)
             /\ batch.result.successful + batch.result.failed = batch.result.total)
  /\ (ingest.pc \notin {"idle", "resolved"}) ~> (ingest.pc = "resolved")
  /\ (batch.pc \notin {"idle", "resolved"}) ~> (batch.pc = "resolved")

\* C9: an ingestion whose text is shorter than 100 characters after cleaning
\* returns a failure with an error, and no ingestion reports success having
\* stored zero chunks.
C9_ShortTextFails ==
  ingest.pc = "resolved" =>
    /\ Len(ingest.cleaned) < 100
         => ~ingest.result.success /\ ingest.result.error # ""
    /\ ingest.result.success => ingest.result.chunksProcessed >= 1

\* C10: in every state every stored chunk record has a chunk text, an
\* embedding, an owner and startChar, endChar and tokenEstimate metadata, and
\* rows are written only by an ingestion all of whose chunks have been
\* embedded, all of them in one insert.
C10_StoredChunksFullyFormed ==
  /\ [](\A i \in 1..Len(content_chunks) :
          LET row == content_chunks[i]
          IN  /\ row.chunk_text # <<>>
              /\ row.embedding \in Vectors
              /\ row.user_id \in Owners
              /\ row.metadata.startChar \in Nat /\ row.metadata.endChar \in Nat
              /\ row.metadata.startChar < row.metadata.endChar
              /\ row.metadata.tokenEstimate >= 1)
  /\ [][content_chunks' # content_chunks
          => /\ ingest.pc = "storing" /\ ingest.chunks # <<>>
             /\ Len(ingest.embedded) = Len(ingest.chunks)
             /\ \A k \in 1..Len(ingest.embedded) :
                  Prop(ingest.embedded[k], "embedding", NoEmbedding) \in Vectors
             /\ Len(content_chunks') = Len(content_chunks) + Len(ingest.chunks)]_vars

\* the store holds the chunk of one video of a channel, and the ingestion of
\* the next video has been aborted by a failure of the embedding provider
C10_Witness ==
  /\ content_chunks # <<>>
  /\ batch.pc = "items" /\ Len(batch.started) = 2
  /\ ingest.pc = "resolved" /\ ~ingest.result.success
  /\ ingest.result.error = EmbeddingProviderError

\* C11: within one ingestion call embedChunks returns one entry per chunk of
\* the chunker, in the chunker's order, with the token estimate of that
\* chunk's text, and storeContentChunks writes the entries in that order: the
\* row with chunk_index k - 1 holds the text and offsets of the k-th chunk and
\* the embedding returned for it, and startChar grows with chunk_index.
C11_StoredInChunkOrder ==
  /\ [][ingest.pc = "embedding" /\ ingest'.pc = "storing"
          => /\ Len(ingest'.embedded) = Len(ingest.chunks)
             /\ \A k \in 1..Len(ingest.chunks) :
                  /\ ingest'.embedded[k].text = ingest.chunks[k].text
                  /\ ingest'.embedded[k].startChar = ingest.chunks[k].startChar
                  /\ ingest'.embedded[k].endChar = ingest.chunks[k].endChar
                  /\ ingest'.embedded[k].tokenEstimate
                       = EstimateTokenCount(CleanText(ingest.chunks[k].text))]_vars
  /\ [][content_chunks' # content_chunks
          => LET n == Len(content_chunks)
             IN  /\ Len(content_chunks') = n + Len(ingest.chunks)
                 /\ SubSeq(content_chunks', 1, n) = content_chunks
                 /\ \A k \in 1..Len(ingest.chunks) :
                      LET row == content_chunks'[n + k]
                      IN  /\ row.chunk_index = k - 1
                          /\ row.content_id = ingest.contentId
                          /\ row.chunk_text = ingest.chunks[k].text
                          /\ row.metadata.startChar = ingest.chunks[k].startChar
                          /\ row.metadata.endChar = ingest.chunks[k].endChar
                          /\ row.embedding = ingest.embedded[k].embedding
                          /\ row.metadata.tokenEstimate = ingest.embedded[k].tokenEstimate
                          /\ k > 1 => content_chunks'[n + k - 1].metadata.startChar
                                        < row.metadata.startChar]_vars

\* an ingestion has stored two chunks of different lengths with different
\* embeddings
C11_Witness ==
  /\ ingest.pc = "resolved" /\ ingest.result.success
  /\ ingest.result.chunksProcessed = 2 /\ Len(content_chunks) = 2
  /\ content_chunks[1].chunk_index = 0 /\ content_chunks[2].chunk_index = 1
  /\ content_chunks[1].embedding # content_chunks[2].embedding
  /\ content_chunks[1].metadata.tokenEstimate # content_chunks[2].metadata.tokenEstimate

\* C18: every chunk in the store belongs to a content source recorded for
\* its owner: once an ingestion has stored chunks, the content sources of
\* that owner are not empty.
C18_ChunksBelongToASource ==
  \A j \in 1..Len(content_chunks) :
    \E k \in 1..Len(content_sources) :
      content_sources[k].user_id = content_chunks[j].user_id

(***************************************************************************)
(* The same video ingested again                                           *)
(***************************************************************************)
\* one video, named by its ID or by its URL, ingested while the store holds
\* at most MaxStored chunks
ReingestVideo ==
  /\ NoIngestion /\ Len(content_chunks) <= MaxStored
  /\ \E videoUrl \in {Rep("a", 11),
                      <<"h", "t", "t", "p", "s", ":", "/", "/", "y", "o", "u",
                        "t", "u", ".", "b", "e", "/">> \o Rep("a", 11)},
        userId \in Owners :
       BeginYouTubeVideo(videoUrl, userId, NoIngestOptions)
  /\ UNCHANGED batch

ReingestNext ==
  \/ IngestInitialize \/ ReingestVideo
  \/ VideoDetails \/ VideoTranscript
  \/ IngestChunkStep \/ IngestChunked \/ IngestEmbedded \/ IngestStored
  \/ IngestDone

ReingestSpec == IngestInit /\ [][ReingestNext]_vars

\* C19: the owner, the content ID and the chunk index together identify at
\* most one stored chunk, however often a source is ingested.
C19_ChunkKeysUnique ==
  \A j, k \in 1..Len(content_chunks) :
    (/\ content_chunks[j].user_id = content_chunks[k].user_id
     /\ content_chunks[j].content_id = content_chunks[k].content_id
     /\ content_chunks[j].chunk_index = content_chunks[k].chunk_index)
      => j = k

\* C28: an ingestion that resolves with success false has stored nothing.
\* An ingestion starts only while content_chunks holds fewer than MaxStored
\* rows, a channel or account ingestion only while content_sources holds
\* fewer than MaxSources rows as well, and both bounds are 1: the tables a
\* failed call leaves behind are as empty as it found them.
C28_FailedIngestionStoresNothing ==
  /\ (ingest.pc = "resolved" /\ ~ingest.result.success /\ batch.pc = "idle")
       => Len(content_chunks) < MaxStored
  /\ (batch.pc = "resolved" /\ ~batch.result.success)
       => Len(content_chunks) < MaxStored /\ Len(content_sources) < MaxSources

(***************************************************************************)
(* Custom texts ingested by calls whose clock readings may coincide        *)
(***************************************************************************)
\* The content ID of a call is made in its first step, before its first
\* await, from Date.now() and Math.random(): calls that overlap in time get
\* the IDs of calls made one after the other with the same readings.  The
\* clock reads 1 or 2 and the random number is 7 or 8.
CustomIngest ==
  /\ NoIngestion /\ Len(content_chunks) <= MaxStored
  /\ \E t \in {Rep("a", MinContentLength),
               <<"a">> \o Rep(" ", MinContentLength - 2) \o <<"b">>},
        now \in {1, 2}, random \in {7, 8} :
       BeginCustomText(t, "A", "title", NoIngestOptions, now, random)
  /\ UNCHANGED batch

CustomNext ==
  \/ IngestInitialize \/ CustomIngest
  \/ IngestChunkStep \/ IngestChunked \/ IngestEmbedded \/ IngestStored
  \/ IngestDone

CustomSpec == IngestInit /\ [][CustomNext]_vars

\* C30: the first chunks of two ingestCustomText calls never have the same
\* content ID.
C30_CustomIdsDiffer ==
  \A j, k \in 1..Len(content_chunks) :
    (/\ j # k
     /\ content_chunks[j].content_type = CUSTOM_TEXT
     /\ content_chunks[k].content_type = CUSTOM_TEXT
     /\ content_chunks[j].chunk_index = 0 /\ content_chunks[k].chunk_index = 0)
      => content_chunks[j].content_id # content_chunks[k].content_id

(***************************************************************************)
(* The chunker alone: chunkText applied to every small input               *)
(***************************************************************************)
ChunkAlphabet == {"a", ".", " ", "\n"}

Texts(n) == UNION {[1..k -> ChunkAlphabet] : k \in 0..n}

ChunkInit ==
  /\ text \in Texts(MaxTextLen)
  /\ chunkSize \in 1..MaxChunkSize
  /\ overlap \in 0..MaxOverlap
  /\ startChar = 0
  /\ chunks = <<>>
  /\ chunkPc = "entry"
  /\ IdleClients /\ EmptyDb /\ lastOp = NoOp /\ query = NoQuery /\ IdleIngestion

ChunkNext == ChunkEntry \/ ChunkTest \/ ChunkBody

ChunkSpec == ChunkInit /\ [][ChunkNext]_vars

\* chunkText is synchronous code: once called it keeps running
FairChunkSpec == ChunkSpec /\ WF_vars(ChunkNext)

\* C1: for every non-empty text and 0 < overlap < chunkSize, chunkText
\* terminates and returns at least one chunk.
C1_ChunkTextTerminates ==
  (text # <<>> /\ 0 < overlap /\ overlap < chunkSize)
    => <>(chunkPc = "done" /\ Len(chunks) >= 1)

\* C12: for a text longer than chunkSize and 0 < overlap < chunkSize the
\* ranges of the chunks chunkText has emitted leave no gap: the first starts
\* at 0 and each later one starts at or before the end of the one emitted
\* before it.
C12_RangesCoverTheText ==
  (Len(text) > chunkSize /\ 0 < overlap /\ overlap < chunkSize)
    => /\ chunks # <<>> => chunks[1].startChar = 0
       /\ \A k \in 2..Len(chunks) : chunks[k].startChar <= chunks[k - 1].endChar

\* C13: for 0 < overlap < chunkSize every chunk chunkText emits has
\* 0 <= startChar < endChar <= len(text) and a text that is not empty.
C13_ChunksWellFormed ==
  (0 < overlap /\ overlap < chunkSize)
    => \A k \in 1..Len(chunks) :
         /\ 0 <= chunks[k].startChar
         /\ chunks[k].startChar < chunks[k].endChar
         /\ chunks[k].endChar <= Len(text)
         /\ chunks[k].text # <<>>

\* C14: for a text longer than chunkSize the list chunkText builds repeats no
\* range, every chunk after the first starts at most overlap characters
\* before the end of the chunk before it, and only the last chunk ends at
\* len(text).
C14_NoRangeRepeated ==
  (Len(text) > chunkSize /\ 0 <= overlap /\ overlap < chunkSize)
    => /\ \A j, k \in 1..Len(chunks) :
            j # k => <<chunks[j].startChar, chunks[j].endChar>>
                       # <<chunks[k].startChar, chunks[k].endChar>>
       /\ \A k \in 2..Len(chunks) :
            chunks[k].startChar >= chunks[k - 1].endChar - overlap
       /\ \A k \in 1..(Len(chunks) - 1) : chunks[k].endChar # Len(text)

\* C26: the end chunkText settles on for a window lies after the start of
\* the window and at most chunkSize characters after it, whether or not it
\* was moved back to a paragraph or sentence break.
C26_SnapStaysInWindow ==
  \A k \in 1..Len(chunks) :
    chunks[k].startChar >= 0
      => /\ chunks[k].endChar > chunks[k].startChar
         /\ chunks[k].endChar <= chunks[k].startChar + chunkSize

\* C27: every iteration of the loop of chunkText leaves the window start
\* greater than it found it.
C27_StartIncreases == [][chunkPc = "body" => startChar' > startChar]_vars

====
